---- MODULE Spec2Model ----
(***************************************************************************)
(* A model of the reinforcement-learning training core of the smart        *)
(* traffic management backend: the experience replay buffer, the DQN       *)
(* agent and the episode loops of backend/app/simulator/train_agent.py,    *)
(* the SumoTrafficEnv of env_sumo_rl.py and the start of the simulator by  *)
(* sumo_controller.py.                                                     *)
(*                                                                         *)
(* Real numbers are scaled integers: gamma is cfg.gamma / GammaDen, and    *)
(* a bootstrap target is kept multiplied by GammaDen.                      *)
(***************************************************************************)
EXTENDS Integers, Sequences, FiniteSets

VARIABLES
    buffer,     \* ReplayBuffer.buffer: the deque's contents, oldest first
    capacity,   \* ReplayBuffer.buffer.maxlen
    pushed,     \* history: the pushes onto the stand-alone buffer, in call order
    ret,        \* the last call: its name, argument, outcome and result
    cfg,        \* DQNAgent's batch_size, gamma, epsilon_decay, epsilon_min
    q_network,          \* parameters of DQNAgent.q_network (online)
    target_network,     \* parameters of DQNAgent.target_network
    optimizer,          \* Adam's state: the steps it has taken
    loss_history,       \* DQNAgent.loss_history
    epsilon,            \* DQNAgent.epsilon, a fraction <<num, den>>
    saved,              \* the checkpoint file this agent wrote, or NoFile
    snapshots,  \* history: the online parameters at construction and at
                \* every update_target_network (kept by SpecCheckpoint)
    restored,   \* history: the target parameters every load put in place
                \* (kept by SpecCheckpoint)
    calc,       \* the last gradient step's tensors: the online parameters
                \* it read, current_q_values and target_q_values
    decays,     \* history: the decay_epsilon calls made (kept by SpecEpsilon
                \* and by the specifications of train_dqn)
    env,        \* the SumoTrafficEnv objects: sumo_running, current_step,
                \* total_queue_length, total_waiting_time of each
    connection, \* the traci module's default connection: "none" when no
                \* connection is registered, "live", or "dead" when the
                \* registered connection's simulator process is gone
    opener,     \* history: the holder whose traci.start opened the connection
    _running,   \* sumo_controller._running
    loop,       \* the running episode loop (train_dqn, evaluate_agent or
                \* evaluate_fixed_time_baseline): its arguments, its local
                \* variables and pc, the statement it is at
    trace,      \* history: what the running loop has done so far
    _CURRENT_SETTINGS,      \* routes/settings.py: the in-memory settings
    last_applied_action,    \* routes/control.py: the last manual signal
    clock       \* what time() returns

bufvars == <<buffer, capacity, pushed>>

agentvars ==
    <<cfg, q_network, target_network, optimizer, loss_history, epsilon,
      saved, calc>>

histvars == <<snapshots, restored, decays>>

envvars == <<env, connection, opener, _running>>

loopvars == <<loop, trace>>

routevars == <<_CURRENT_SETTINGS, last_applied_action, clock>>

vars == <<buffer, capacity, pushed, ret, cfg, q_network, target_network,
          optimizer, loss_history, epsilon, saved, snapshots, restored, calc,
          decays, env, connection, opener, _running, loop, trace,
          _CURRENT_SETTINGS, last_applied_action, clock>>

(***************************************************************************)
(* Bounds of the model.                                                    *)
(***************************************************************************)
MaxCap == 3         \* largest ReplayBuffer capacity explored
MaxPush == 5        \* pushes per run of the stand-alone buffer
MaxBufferSize == 1  \* largest buffer_size of an agent; batch_size <= buffer_size + 1
MaxTrain == 1       \* gradient steps per run of the agent
GammaDen == 2       \* discount factors are multiples of 1 / GammaDen

(***************************************************************************)
(* Transitions (state, action, reward, next_state, done).  An observation  *)
(* is the vector of the four queue lengths n2c, s2c, e2c, w2c.             *)
(***************************************************************************)
ObsOf(i) == IF i % 2 = 0 THEN <<5, 5, 5, 5>> ELSE <<0, 1, 0, 2>>

\* step's reward: minus the total queue of the new state, and 10 less when
\* that queue is above 15
RewardOfPenaltyAtThreshold(next_state) ==
    LET queue_length == next_state[1] + next_state[2] + next_state[3] + next_state[4]
    IN  IF queue_length >= 15 THEN 0 - queue_length - 10 ELSE 0 - queue_length

RewardOf(next_state) ==
    LET queue_length == next_state[1] + next_state[2] + next_state[3] + next_state[4]
    IN  IF queue_length > 15 THEN 0 - queue_length - 10 ELSE 0 - queue_length

Transition(i) ==
    [state |-> ObsOf(i), action |-> i % 2, reward |-> RewardOf(ObsOf(i \div 2)),
     next_state |-> ObsOf(i \div 2), done |-> ((i \div 2) % 2 = 0)]

\* the transitions offered to push and store_transition
TransitionSpace == {Transition(1), Transition(2)}

(***************************************************************************)
(* collections.deque(maxlen=capacity).append: the item is appended on the  *)
(* right and, when that makes the deque longer than maxlen, one item is    *)
(* dropped from the left.                                                  *)
(***************************************************************************)
DequeAppendDropNewest(buf, maxlen, x) ==
    IF Len(buf) >= maxlen THEN buf ELSE Append(buf, x)

DequeAppendUnbounded(buf, maxlen, x) == Append(buf, x)

DequeAppend(buf, maxlen, x) ==
    LET grown == Append(buf, x)
    IN  IF Len(grown) > maxlen THEN Tail(grown) ELSE grown

\* ReplayBuffer.push
Push(buf, maxlen, t) == DequeAppend(buf, maxlen, t)

(***************************************************************************)
(* random.sample(population, k): ValueError unless 0 <= k <= n; otherwise  *)
(* k items taken from k distinct positions, in selection order.            *)
(***************************************************************************)
SampleIndicesWithReplacement(n, k) == [1..k -> 1..n]

SampleIndices(n, k) ==
    {idx \in [1..k -> 1..n] : \A i, j \in 1..k : i # j => idx[i] # idx[j]}

RandomSampleOk(n, k) == 0 <= k /\ k <= n

RandomSample(population, k) ==
    {[i \in 1..k |-> population[idx[i]]] : idx \in SampleIndices(Len(population), k)}

(***************************************************************************)
(* zip of the unpacked batch: its columns.  Of an empty batch zip yields    *)
(* nothing at all, of a non-empty one the five columns.                    *)
(***************************************************************************)
Column(batch, f) == [i \in 1..Len(batch) |-> batch[i][f]]

Zip(batch) ==
    IF batch = <<>> THEN <<>>
    ELSE <<Column(batch, "state"), Column(batch, "action"),
           Column(batch, "reward"), Column(batch, "next_state"),
           Column(batch, "done")>>

NoBatch == <<>>

(***************************************************************************)
(* ReplayBuffer.sample(batch_size): the outcomes the call can have.  The   *)
(* five-target unpacking of zip's result raises ValueError when zip        *)
(* yielded other than five columns.                                        *)
(***************************************************************************)
SampleOutcomesClamped(buf, k) ==
    LET m == IF k > Len(buf) THEN Len(buf) ELSE k
    IN  IF m < 1
        THEN {[outcome |-> "ValueError", batch |-> NoBatch]}
        ELSE {[outcome |-> "ok", batch |-> Zip(b)] : b \in RandomSample(buf, m)}

SampleOutcomes(buf, k) ==
    IF ~RandomSampleOk(Len(buf), k)
    THEN {[outcome |-> "ValueError", batch |-> NoBatch]}
    ELSE {IF Len(Zip(b)) = 5
          THEN [outcome |-> "ok", batch |-> Zip(b)]
          ELSE [outcome |-> "ValueError", batch |-> NoBatch]
          : b \in RandomSample(buf, k)}

(***************************************************************************)
(* Fractions <<num, den>> in lowest terms with den > 0, for epsilon.       *)
(***************************************************************************)
RECURSIVE Gcd(_, _)
Gcd(a, b) == IF b = 0 THEN a ELSE Gcd(b, a % b)

Abs(x) == IF x < 0 THEN 0 - x ELSE x

Frac(n, d) ==
    LET g == Gcd(Abs(n), d) IN IF n = 0 THEN <<0, 1>> ELSE <<n \div g, d \div g>>

FracMul(x, y) == Frac(x[1] * y[1], x[2] * y[2])

FracLess(x, y) == x[1] * y[2] < y[1] * x[2]

\* Python's max(a, b): b when b > a, otherwise a.
PyMax(a, b) == IF FracLess(a, b) THEN b ELSE a

(***************************************************************************)
(* DQN: fc1, relu, fc2, relu, fc3.  The model's network has one hidden     *)
(* unit per hidden layer and ActionDim outputs; its parameter vectors are  *)
(* the family Theta(i).                                                    *)
(***************************************************************************)
ActionDim == 2

\* the discount factors explored, times GammaDen
Gammas == {1, 2}

Relu(x) == IF x > 0 THEN x ELSE 0

Dot4(w, x) == w[1] * x[1] + w[2] * x[2] + w[3] * x[3] + w[4] * x[4]

Theta(i) ==
    [fc1_w |-> <<1, 0, 0, i % 2>>, fc1_b |-> 0,
     fc2_w |-> 1 + (i \div 3), fc2_b |-> 0,
     fc3_w |-> <<(i % 3) - 1, 1 - (i % 3)>>, fc3_b |-> <<0, i % 3>>]

ParamSpace == {Theta(0), Theta(2)}

\* DQN.forward: the Q-values of the actions 0 .. ActionDim - 1, at 1 .. ActionDim
Forward(theta, x) ==
    LET h1 == Relu(Dot4(theta.fc1_w, x) + theta.fc1_b)
        h2 == Relu(theta.fc2_w * h1 + theta.fc2_b)
    IN  [a \in 1..ActionDim |-> theta.fc3_w[a] * h2 + theta.fc3_b[a]]

\* tensor.max: the largest entry
MaxOf(q) == CHOOSE m \in {q[a] : a \in 1..Len(q)} : \A a \in 1..Len(q) : q[a] <= m

\* tensor.argmax().item(): the index (from 0) of the first largest entry
ArgMax(q) ==
    (CHOOSE a \in 1..Len(q) :
        /\ q[a] = MaxOf(q)
        /\ \A b \in 1..(a - 1) : q[b] < q[a]) - 1

ObsSpace == {ObsOf(0), ObsOf(1)}

NoFile == <<>>

NoCalc == [online |-> <<>>, current_q |-> <<>>, target_q |-> <<>>]

\* The agent's variables in a run that constructs no agent.
NoAgent ==
    /\ cfg = [batch_size |-> 1, gamma |-> 1, epsilon |-> <<1, 1>>,
              epsilon_decay |-> <<1, 2>>, epsilon_min |-> <<1, 2>>]
    /\ q_network = Theta(0)
    /\ target_network = Theta(0)
    /\ optimizer = 0
    /\ loss_history = <<>>
    /\ epsilon = <<1, 1>>
    /\ saved = NoFile
    /\ snapshots = {}
    /\ restored = {}
    /\ calc = NoCalc
    /\ decays = 0

\* The environment's variables in a run that constructs no environment.
NoEnv ==
    /\ env = <<>>
    /\ connection = "none"
    /\ opener = "nobody"
    /\ _running = FALSE

\* The loop's variables in a run that calls none of the episode loops.
NoLoop ==
    /\ loop = <<>>
    /\ trace = <<>>

\* None of control.py's last_applied_action
None == <<>>

\* The route modules' variables as their import leaves them
\* (settings.py lines 9-12, control.py line 12), at time() = 0.
NoRoutes ==
    /\ _CURRENT_SETTINGS = [optimization_strategy |-> "manual",
                            last_updated |-> 0]
    /\ last_applied_action = None
    /\ clock = 0

Ret(op, k, outcome, batch, val) ==
    [op |-> op, k |-> k, outcome |-> outcome, batch |-> batch, val |-> val]

(***************************************************************************)
(* The stand-alone ReplayBuffer: construction, push, sample, len.          *)
(***************************************************************************)
BufInit ==
    /\ capacity \in 0..MaxCap
    /\ buffer = <<>>
    /\ pushed = <<>>
    /\ ret = Ret("init", 0, "ok", NoBatch, 0)
    /\ NoAgent
    /\ NoEnv
    /\ NoLoop
    /\ NoRoutes

BufPush ==
    /\ Len(pushed) < MaxPush
    /\ \E t \in TransitionSpace :
        /\ buffer' = Push(buffer, capacity, t)
        /\ pushed' = Append(pushed, t)
    /\ ret' = Ret("push", 0, "ok", NoBatch, 0)
    /\ UNCHANGED <<capacity, agentvars, histvars, envvars, loopvars, routevars>>

BufSample ==
    /\ \E k \in (0 - 1)..(MaxCap + 1) :
       \E r \in SampleOutcomes(buffer, k) :
          ret' = Ret("sample", k, r.outcome, r.batch, 0)
    /\ UNCHANGED <<bufvars, agentvars, histvars, envvars, loopvars, routevars>>

BufLen ==
    /\ ret' = Ret("len", 0, "ok", NoBatch, Len(buffer))
    /\ UNCHANGED <<bufvars, agentvars, histvars, envvars, loopvars, routevars>>

BufNext == BufPush \/ BufSample \/ BufLen

SpecBuf == BufInit /\ [][BufNext]_vars

(***************************************************************************)
(* Helpers of the statements about the buffer.                             *)
(***************************************************************************)
LastN(seq, n) == SubSeq(seq, Len(seq) - n + 1, Len(seq))

Count(seq, x) == Cardinality({i \in 1..Len(seq) : seq[i] = x})

\* The i-th row of a returned batch, as a transition.
Row(batch, i) ==
    [state |-> batch[1][i], action |-> batch[2][i], reward |-> batch[3][i],
     next_state |-> batch[4][i], done |-> batch[5][i]]

Rows(batch) == [i \in 1..Len(batch[1]) |-> Row(batch, i)]

SampleReturned == ret.op = "sample" /\ ret.outcome = "ok"

(***************************************************************************)
(* C1: for a capacity C >= 1, once more than C transitions have been       *)
(* pushed the buffer holds C entries, exactly the last C pushed, in        *)
(* insertion order; and a push onto a full buffer removes the single       *)
(* oldest entry and appends the new one as the newest.                     *)
(***************************************************************************)
C1_LastCPushed ==
    (capacity >= 1 /\ Len(pushed) > capacity)
        => /\ Len(buffer) = capacity
           /\ buffer = LastN(pushed, capacity)

C1_PushWhenFull ==
    (ret'.op = "push" /\ Len(pushed') = Len(pushed) + 1
        /\ capacity >= 1 /\ Len(buffer) = capacity)
        => buffer' = Append(Tail(buffer), pushed'[Len(pushed')])

C1_FifoEviction == [](C1_LastCPushed) /\ [][C1_PushWhenFull]_vars

\* capacity 3, five pushes t1..t5: t3, t4, t5 are left and t1 is gone.
C1_Witness ==
    /\ capacity = 3
    /\ Len(pushed) = 5
    /\ buffer = <<pushed[3], pushed[4], pushed[5]>>
    /\ \A i \in 1..3 : buffer[i] # pushed[1]

(***************************************************************************)
(* C2: in every state reached by push, sample and len calls,               *)
(* 0 <= len(buffer) <= capacity.                                           *)
(***************************************************************************)
C2_SizeWithinCapacity == 0 <= Len(buffer) /\ Len(buffer) <= capacity

\* len() on a full buffer that has already evicted.
C2_Witness ==
    /\ ret.op = "len"
    /\ capacity >= 1
    /\ ret.val = capacity
    /\ Len(pushed) > capacity

C4_BatchAligned(r, buf, buf2) ==
    /\ r.outcome = "ok"
    /\ Len(r.batch) = 5
    /\ \A c \in 1..5 : Len(r.batch[c]) = r.k
    /\ \A i \in 1..r.k : \E j \in 1..Len(buf) : Row(r.batch, i) = buf[j]
    /\ buf2 = buf

C4_SampleWithinSizeSucceeds ==
    [][(ret'.op = "sample" /\ 0 <= ret'.k /\ ret'.k <= Len(buffer))
        => C4_BatchAligned(ret', buffer, buffer')]_vars

\* The same statement for 1 <= k <= len(buffer), where the code meets it.
C4_SampleOfAtLeastOneSucceeds ==
    [][(ret'.op = "sample" /\ 1 <= ret'.k /\ ret'.k <= Len(buffer))
        => C4_BatchAligned(ret', buffer, buffer')]_vars

(***************************************************************************)
(* C5: a returned batch is drawn without replacement: no transition        *)
(* appears in it more often than it is stored in the buffer, and           *)
(* sample(len(buffer)) returns a permutation of the whole buffer.          *)
(***************************************************************************)
C5_WithoutReplacement ==
    SampleReturned =>
        /\ \A t \in TransitionSpace :
              Count(Rows(ret.batch), t) <= Count(buffer, t)
        /\ ret.k = Len(buffer) =>
              \A t \in TransitionSpace :
                  Count(Rows(ret.batch), t) = Count(buffer, t)

\* the whole of a three-entry buffer holding one transition twice, returned
\* in another order than it is stored
C5_Witness ==
    /\ SampleReturned
    /\ Len(buffer) = 3
    /\ ret.k = 3
    /\ \E i, j \in 1..3 : i # j /\ buffer[i] = buffer[j]
    /\ Rows(ret.batch) # buffer

(***************************************************************************)
(* DQNAgent.                                                               *)
(***************************************************************************)
\* get_action: the actions the call can return.  random.random() lies in
\* [0, 1), so the random branch can be taken when epsilon > 0 and the
\* greedy one when epsilon < 1.
GetActionResultsIgnoringTraining(qn, eps, state, training) ==
    (IF FracLess(<<0, 1>>, eps) THEN 0..(ActionDim - 1) ELSE {})
        \cup
    (IF FracLess(eps, <<1, 1>>) THEN {ArgMax(Forward(qn, state))} ELSE {})

GetActionResults(qn, eps, state, training) ==
    (IF training /\ FracLess(<<0, 1>>, eps) THEN 0..(ActionDim - 1) ELSE {})
        \cup
    (IF ~training \/ FracLess(eps, <<1, 1>>)
     THEN {ArgMax(Forward(qn, state))} ELSE {})

\* train: "if len(self.replay_buffer) < self.batch_size: return None"
TrainGuardOffByOne(n, batch_size) == n + 1 < batch_size

TrainGuard(n, batch_size) == n < batch_size

\* torch.FloatTensor(dones)
DoneFloat(d) == IF d THEN 1 ELSE 0

\* self.q_network(states).gather(1, actions.unsqueeze(1))
CurrentQValues(qn, states, actions) ==
    [i \in 1..Len(states) |-> Forward(qn, states[i])[actions[i] + 1]]

\* the network that values next_states: self.target_network
BootstrapNetworkOnline(qn, tn) == qn

BootstrapNetwork(qn, tn) == tn

\* rewards + (1 - dones) * self.gamma * max_next_q_values, times GammaDen
TargetQNoMask(reward, done, gamma, max_next_q) ==
    reward * GammaDen + gamma * max_next_q

TargetQ(reward, done, gamma, max_next_q) ==
    reward * GammaDen + (1 - DoneFloat(done)) * gamma * max_next_q

TargetQValues(net, gamma, rewards, next_states, dones) ==
    [i \in 1..Len(rewards) |->
        TargetQ(rewards[i], dones[i], gamma, MaxOf(Forward(net, next_states[i])))]

RECURSIVE SumSquares(_, _, _)
SumSquares(current_q, target_q, n) ==
    IF n = 0 THEN 0
    ELSE LET diff == current_q[n] * GammaDen - target_q[n]
         IN  diff * diff + SumSquares(current_q, target_q, n - 1)

\* F.mse_loss: the mean of the squared differences, as a fraction
MseLoss(current_q, target_q) ==
    Frac(SumSquares(current_q, target_q, Len(current_q)),
         Len(current_q) * GammaDen * GammaDen)

\* optimizer.step() of Adam over self.q_network.parameters(): the pairs
\* (online, target) it can leave
OptimizerStepBothNetworks(qn, tn) == ParamSpace \X ParamSpace

OptimizerStep(qn, tn) == {<<q2, tn>> : q2 \in ParamSpace}

\* dst.load_state_dict(src.state_dict()): dst's parameters become src's
LoadStateDictNoCopy(dst, src) == dst

LoadStateDict(dst, src) == src

\* decay_epsilon
DecayEpsilon(eps, c) == PyMax(c.epsilon_min, FracMul(eps, c.epsilon_decay))

\* the dictionary save writes and load reads
CheckpointWithOnlineAsTarget(qn, tn, opt, eps) ==
    [q_network |-> qn, target_network |-> qn, optimizer |-> opt, epsilon |-> eps]

Checkpoint(qn, tn, opt, eps) ==
    [q_network |-> qn, target_network |-> tn, optimizer |-> opt, epsilon |-> eps]

\* a checkpoint written by another agent of the same dimensions: its
\* target parameters are an earlier snapshot of that agent's online ones
ForeignCheckpoints == {Checkpoint(Theta(0), Theta(2), 1, <<1, 2>>)}

AgentInit ==
    /\ capacity \in 1..MaxBufferSize
    /\ cfg \in [batch_size : 0..(capacity + 1), gamma : Gammas,
                epsilon : {<<1, 1>>},
                epsilon_decay : {<<1, 2>>}, epsilon_min : {<<1, 2>>}]
    /\ buffer = <<>>
    /\ pushed = <<>>
    /\ q_network = Theta(0)
    /\ target_network = q_network
    /\ optimizer = 0
    /\ loss_history = <<>>
    /\ epsilon = cfg.epsilon
    /\ saved = NoFile
    /\ snapshots = {q_network}
    /\ restored = {}
    /\ calc = NoCalc
    /\ decays = 0
    /\ NoEnv
    /\ NoLoop
    /\ NoRoutes
    /\ ret = Ret("init", 0, "ok", NoBatch, 0)

\* agent.get_action(state, training)
GetAction(state, training) ==
    /\ \E a \in GetActionResults(q_network, epsilon, state, training) :
          ret' = Ret("get_action", <<state, training>>, "ok", NoBatch, a)
    /\ UNCHANGED <<bufvars, agentvars>>

AgentGetAction ==
    \E state \in ObsSpace, training \in BOOLEAN : GetAction(state, training)

\* agent.store_transition(state, action, reward, next_state, done)
StoreTransition(t) ==
    /\ buffer' = Push(buffer, capacity, t)
    /\ ret' = Ret("store_transition", 0, "ok", NoBatch, 0)
    /\ UNCHANGED <<capacity, agentvars>>

AgentStoreTransition == \E t \in TransitionSpace : StoreTransition(t)

\* agent.train()
Train ==
    IF TrainGuard(Len(buffer), cfg.batch_size)
    THEN /\ ret' = Ret("train", cfg.batch_size, "None", NoBatch, 0)
         /\ UNCHANGED <<bufvars, agentvars>>
    ELSE \E r \in SampleOutcomes(buffer, cfg.batch_size) :
         IF r.outcome # "ok"
         THEN /\ ret' = Ret("train", cfg.batch_size, r.outcome, NoBatch, 0)
              /\ UNCHANGED <<bufvars, agentvars>>
         ELSE LET current_q == CurrentQValues(q_network, r.batch[1], r.batch[2])
                  target_q ==
                      TargetQValues(BootstrapNetwork(q_network, target_network),
                                    cfg.gamma, r.batch[3], r.batch[4], r.batch[5])
                  loss == MseLoss(current_q, target_q)
              IN  /\ \E nets \in OptimizerStep(q_network, target_network) :
                        /\ q_network' = nets[1]
                        /\ target_network' = nets[2]
                  /\ optimizer' = optimizer + 1
                  /\ loss_history' = Append(loss_history, loss)
                  /\ calc' = [online |-> q_network, current_q |-> current_q,
                              target_q |-> target_q]
                  /\ ret' = Ret("train", cfg.batch_size, "loss", r.batch, loss)
                  /\ UNCHANGED <<bufvars, cfg, epsilon, saved>>

\* train() while the run is within the explored number of gradient steps
AgentTrain ==
    /\ ~TrainGuard(Len(buffer), cfg.batch_size) => Len(loss_history) < MaxTrain
    /\ Train

AgentUpdateTargetNetwork ==
    /\ target_network' = LoadStateDict(target_network, q_network)
    /\ ret' = Ret("update_target_network", 0, "ok", NoBatch, 0)
    /\ UNCHANGED <<bufvars, cfg, q_network, optimizer, loss_history, epsilon,
                   saved, calc>>

AgentDecayEpsilon ==
    /\ epsilon' = DecayEpsilon(epsilon, cfg)
    /\ ret' = Ret("decay_epsilon", 0, "ok", NoBatch, 0)
    /\ UNCHANGED <<bufvars, cfg, q_network, target_network, optimizer,
                   loss_history, saved, calc>>

AgentSave ==
    /\ saved' = Checkpoint(q_network, target_network, optimizer, epsilon)
    /\ ret' = Ret("save", 0, "ok", NoBatch, 0)
    /\ UNCHANGED <<bufvars, cfg, q_network, target_network, optimizer,
                   loss_history, epsilon, calc>>

\* load(filepath): the file is the one this agent saved (absent before its
\* first save) or one another agent saved
AgentLoad ==
    \E file \in {saved} \cup ForeignCheckpoints :
        IF file = NoFile
        THEN /\ ret' = Ret("load", 0, "FileNotFoundError", NoBatch, 0)
             /\ UNCHANGED <<bufvars, agentvars>>
        ELSE /\ q_network' = file.q_network
             /\ target_network' = file.target_network
             /\ optimizer' = file.optimizer
             /\ epsilon' = file.epsilon
             /\ ret' = Ret("load", 0, "ok", NoBatch, 0)
             /\ UNCHANGED <<bufvars, cfg, loss_history, saved, calc>>

(***************************************************************************)
(* The history variables.  pushed belongs to the stand-alone buffer;       *)
(* snapshots and restored are kept by SpecCheckpoint and stay as they are  *)
(* in the other specifications.  The agent's specifications construct no   *)
(* environment.                                                            *)
(***************************************************************************)
History ==
    /\ pushed' = pushed
    /\ snapshots' =
          IF ret'.op = "update_target_network"
          THEN snapshots \cup {q_network} ELSE snapshots
    /\ restored' =
          IF ret'.op = "load" /\ ret'.outcome = "ok"
          THEN restored \cup {target_network'} ELSE restored
    /\ decays' = decays
    /\ UNCHANGED <<envvars, loopvars, routevars>>

NoHistory ==
    UNCHANGED <<pushed, snapshots, restored, decays, envvars,
                loopvars, routevars>>

\* An agent that never writes a checkpoint: every operation but save.
AgentNext ==
    \/ AgentGetAction /\ NoHistory
    \/ AgentStoreTransition /\ NoHistory
    \/ AgentTrain /\ NoHistory
    \/ AgentUpdateTargetNetwork /\ NoHistory
    \/ AgentDecayEpsilon /\ NoHistory
    \/ AgentLoad /\ NoHistory

SpecAgent == AgentInit /\ [][AgentNext]_vars

\* An agent with checkpoints: every operation, for one configuration.
CheckpointInit ==
    /\ AgentInit
    /\ cfg.batch_size = 1
    /\ cfg.gamma = 1
    /\ capacity = 1

CheckpointNext ==
    \/ AgentGetAction /\ History
    \/ AgentStoreTransition /\ History
    \/ AgentTrain /\ History
    \/ AgentUpdateTargetNetwork /\ History
    \/ AgentDecayEpsilon /\ History
    \/ AgentSave /\ History
    \/ AgentLoad /\ History

SpecCheckpoint == CheckpointInit /\ [][CheckpointNext]_vars

(***************************************************************************)
(* Helpers of the statements about the agent.                              *)
(***************************************************************************)
TrainStepped == ret.op = "train" /\ ret.outcome = "loss"

\* m is the largest of the Q-values q
IsMaxOf(m, q) ==
    /\ \E a \in 1..ActionDim : q[a] = m
    /\ \A a \in 1..ActionDim : q[a] <= m

(***************************************************************************)
(* C6: train() called while len(replay_buffer) < batch_size returns None,  *)
(* raises nothing and changes neither the online nor the target            *)
(* parameters, the optimizer state, the replay buffer, loss_history or     *)
(* epsilon.                                                                *)
(***************************************************************************)
C6_TrainBelowBatchIsNoOp ==
    [][(ret'.op = "train" /\ Len(buffer) < cfg.batch_size)
        => /\ ret'.outcome = "None"
           /\ UNCHANGED <<q_network, target_network, optimizer, buffer,
                          loss_history, epsilon>>]_vars

\* train() on a buffer that holds a transition, but fewer than a batch
C6_Witness ==
    /\ ret.op = "train"
    /\ ret.outcome = "None"
    /\ Len(buffer) >= 1
    /\ Len(buffer) < cfg.batch_size

(***************************************************************************)
(* C7: train() called while len(replay_buffer) >= batch_size returns a     *)
(* non-negative loss, takes exactly one gradient step on the online        *)
(* parameters only, appends exactly that loss to loss_history and leaves   *)
(* the replay buffer, the target parameters and epsilon unchanged.         *)
(***************************************************************************)
C7_StepTaken(r) ==
    /\ r.outcome = "loss"
    /\ r.val[1] >= 0
    /\ optimizer' = optimizer + 1
    /\ loss_history' = Append(loss_history, r.val)
    /\ UNCHANGED <<buffer, target_network, epsilon>>

C7_TrainAtBatchTakesOneStep ==
    [][(ret'.op = "train" /\ Len(buffer) >= cfg.batch_size)
        => C7_StepTaken(ret')]_vars

\* The same statement for agents with batch_size >= 1, where the code
\* meets it.
C7_TrainAtPositiveBatchTakesOneStep ==
    [][(ret'.op = "train" /\ cfg.batch_size >= 1
            /\ Len(buffer) >= cfg.batch_size)
        => C7_StepTaken(ret')]_vars

(***************************************************************************)
(* C8: when every transition of the sampled batch has done = true, the     *)
(* bootstrap target of each transition is its reward, whatever gamma and   *)
(* the target network's Q-values are.  (Targets are kept times GammaDen.)  *)
(***************************************************************************)
C8_TerminalTargetIsReward ==
    (TrainStepped /\ \A i \in 1..ret.k : ret.batch[5][i])
        => \A i \in 1..ret.k : calc.target_q[i] = ret.batch[3][i] * GammaDen

\* such a batch, with gamma > 0 and a target network whose largest Q-value
\* at the next state is not 0
C8_Witness ==
    /\ TrainStepped
    /\ \A i \in 1..ret.k : ret.batch[5][i]
    /\ cfg.gamma > 0
    /\ \E i \in 1..ret.k :
          /\ ret.batch[3][i] # 0
          /\ \E m \in 1..100 :
                IsMaxOf(m, Forward(target_network, ret.batch[4][i]))

(***************************************************************************)
(* C9: for every sampled transition (s, a, r, s2, d) the bootstrap target  *)
(* is r + (1 - d) * gamma * the largest Q-value of the TARGET network at   *)
(* s2, a function of the batch, gamma and the target parameters alone,     *)
(* and the predicted value is the Q-value of the ONLINE network, as it     *)
(* was when train was called, at s for the action a.                       *)
(***************************************************************************)
C9_BootstrapFromTargetNetwork ==
    TrainStepped =>
        \A i \in 1..ret.k :
            LET t == Row(ret.batch, i)
                next_q == Forward(target_network, t.next_state)
            IN  /\ \E m \in {next_q[a] : a \in 1..ActionDim} :
                      /\ IsMaxOf(m, next_q)
                      /\ calc.target_q[i] =
                            IF t.done THEN t.reward * GammaDen
                            ELSE t.reward * GammaDen + cfg.gamma * m
                /\ calc.current_q[i] = Forward(calc.online, t.state)[t.action + 1]

\* a step on a transition that is not terminal, taken while the online and
\* the target network value its next state differently
C9_Witness ==
    /\ TrainStepped
    /\ calc.online # target_network
    /\ \E i \in 1..ret.k :
          /\ ~ret.batch[5][i]
          /\ \A m \in {Forward(calc.online, ret.batch[4][i])[a] : a \in 1..ActionDim} :
                ~IsMaxOf(m, Forward(target_network, ret.batch[4][i]))

(***************************************************************************)
(* C10, as claimed: in every state the target parameters equal the online  *)
(* parameters of this agent as they were at its construction or at one of  *)
(* its synchronizations.                                                   *)
(***************************************************************************)
C10_TargetIsOwnSnapshot == target_network \in snapshots

(***************************************************************************)
(* C10, amended: in every state the target parameters equal the online     *)
(* parameters of this agent as they were at its construction or at one of  *)
(* its synchronizations, or the target parameters a load restored from a   *)
(* checkpoint; train() never changes the target parameters.                *)
(***************************************************************************)
C10_TargetIsSnapshotOrRestored ==
    /\ [](target_network \in snapshots \cup restored)
    /\ [][ret'.op = "train" => target_network' = target_network]_vars

\* after a save and a load, a gradient step has moved the online parameters
\* away from every snapshot while the target still is one
C10_Witness ==
    /\ TrainStepped
    /\ saved # NoFile
    /\ restored # {}
    /\ target_network \in snapshots
    /\ q_network \notin snapshots

(***************************************************************************)
(* C11: immediately after update_target_network() the target parameters    *)
(* equal the online parameters, so both networks give the same Q-values    *)
(* at every state, and the equality persists through get_action,           *)
(* store_transition, decay_epsilon and train calls that return None,       *)
(* until a train() call takes a gradient step.                             *)
(***************************************************************************)
C11_KeepsSync == {"get_action", "store_transition", "decay_epsilon"}

C11_SyncedUntilGradientStep ==
    /\ [][ret'.op = "update_target_network"
            => /\ target_network' = q_network'
               /\ q_network' = q_network
               /\ \A s \in ObsSpace :
                     Forward(target_network', s) = Forward(q_network', s)]_vars
    /\ [][(/\ target_network = q_network
           /\ \/ ret'.op \in C11_KeepsSync
              \/ ret'.op = "train" /\ ret'.outcome = "None")
            => /\ target_network' = q_network'
               /\ q_network' = q_network]_vars

\* a gradient step moved the online parameters, a synchronization copied
\* them, and a decay_epsilon later the two networks still agree
C11_Witness ==
    /\ ret.op = "decay_epsilon"
    /\ Len(loss_history) >= 1
    /\ q_network # calc.online
    /\ target_network = q_network

(***************************************************************************)
(* The exploration rate.  An agent is constructed with any epsilon,        *)
(* epsilon_decay and epsilon_min: __init__ stores them as given.           *)
(***************************************************************************)
MaxDecay == 3       \* decay_epsilon calls per run

EpsilonStarts == {<<1, 1>>, <<1, 4>>}

EpsilonDecays == {<<1, 2>>, <<3, 2>>}

EpsilonMins == {<<1, 8>>, <<1, 2>>}

EpsilonInit ==
    /\ capacity = 1
    /\ cfg \in [batch_size : {1}, gamma : {1}, epsilon : EpsilonStarts,
                epsilon_decay : EpsilonDecays, epsilon_min : EpsilonMins]
    /\ buffer = <<>>
    /\ pushed = <<>>
    /\ q_network = Theta(0)
    /\ target_network = q_network
    /\ optimizer = 0
    /\ loss_history = <<>>
    /\ epsilon = cfg.epsilon
    /\ saved = NoFile
    /\ snapshots = {q_network}
    /\ restored = {}
    /\ calc = NoCalc
    /\ decays = 0
    /\ NoEnv
    /\ NoLoop
    /\ NoRoutes
    /\ ret = Ret("init", 0, "ok", NoBatch, 0)

EpsilonHistory ==
    /\ UNCHANGED <<pushed, snapshots>>
    /\ restored' =
          IF ret'.op = "load" /\ ret'.outcome = "ok"
          THEN restored \cup {target_network'} ELSE restored
    /\ decays' = IF ret'.op = "decay_epsilon" THEN decays + 1 ELSE decays
    /\ UNCHANGED <<envvars, loopvars, routevars>>

EpsilonNext ==
    \/ AgentGetAction /\ EpsilonHistory
    \/ AgentStoreTransition /\ EpsilonHistory
    \/ AgentTrain /\ EpsilonHistory
    \/ decays < MaxDecay /\ AgentDecayEpsilon /\ EpsilonHistory
    \/ AgentUpdateTargetNetwork /\ EpsilonHistory
    \/ AgentLoad /\ EpsilonHistory

SpecEpsilon == EpsilonInit /\ [][EpsilonNext]_vars

RECURSIVE FracPow(_, _)
FracPow(x, m) == IF m = 0 THEN <<1, 1>> ELSE FracMul(x, FracPow(x, m - 1))

FracLeq(x, y) == ~FracLess(y, x)

(***************************************************************************)
(* C12: epsilon never increases: no operation of any constructible agent   *)
(* (get_action, store_transition, train, decay_epsilon,                    *)
(* update_target_network, load) leaves epsilon larger than it was.         *)
(***************************************************************************)
C12_EpsilonNeverIncreases == [][FracLeq(epsilon', epsilon)]_vars

\* The same for decay_epsilon and the operations that do not read a file,
\* on agents with epsilon_min <= epsilon and epsilon_decay <= 1.
C12_NeverIncreasesWithoutLoad ==
    [][(/\ FracLeq(cfg.epsilon_min, cfg.epsilon)
        /\ FracLeq(cfg.epsilon_decay, <<1, 1>>)
        /\ restored = {}
        /\ ret'.op # "load")
        => FracLeq(epsilon', epsilon)]_vars

(***************************************************************************)
(* C13: after m >= 0 calls of decay_epsilon on an agent constructed with   *)
(* epsilon e0, epsilon_decay d and epsilon_min emin (any constructible     *)
(* values), epsilon = max(emin, e0 * d^m).                                 *)
(***************************************************************************)
C13_ClosedForm ==
    PyMax(cfg.epsilon_min, FracMul(cfg.epsilon, FracPow(cfg.epsilon_decay, decays)))

C13_EpsilonAfterDecays == restored = {} => epsilon = C13_ClosedForm

\* The same on agents constructed with epsilon_min <= epsilon.
C13_EpsilonAfterDecaysFromAboveMin ==
    (restored = {} /\ FracLeq(cfg.epsilon_min, cfg.epsilon))
        => epsilon = C13_ClosedForm

(***************************************************************************)
(* C14: get_action(state, training=False) is deterministic: with the       *)
(* online parameters and the state fixed, every call returns the same      *)
(* action whatever epsilon and the random generator are, and the call      *)
(* changes no state of the agent (parameters, buffer, epsilon).            *)
(***************************************************************************)
C14_Epsilons == {epsilon, <<0, 1>>, <<1, 2>>, <<1, 1>>}

C14_GreedyActions(state) ==
    UNION {GetActionResults(q_network, eps, state, FALSE) : eps \in C14_Epsilons}

C14_EvaluationIsDeterministic ==
    /\ [](\A state \in ObsSpace : Cardinality(C14_GreedyActions(state)) = 1)
    /\ [][(ret'.op = "get_action" /\ ~ret'.k[2])
            => /\ ret'.val \in C14_GreedyActions(ret'.k[1])
               /\ UNCHANGED <<q_network, target_network, optimizer, buffer,
                              loss_history, epsilon>>]_vars

\* a greedy call made while epsilon is 1, on a state where the Q-values tie
C14_Witness ==
    /\ ret.op = "get_action"
    /\ ~ret.k[2]
    /\ epsilon = <<1, 1>>
    /\ LET q == Forward(q_network, ret.k[1]) IN q[1] = q[2]
    /\ ret.val = 0

(***************************************************************************)
(* C15: constructing a DQNAgent with action_dim <= 0, batch_size <= 0 or   *)
(* gamma outside [0, 1] fails with a ConfigurationError, so no agent with  *)
(* such parameters ever exists.                                            *)
(***************************************************************************)
C15_NoAgentWithBadConfiguration ==
    /\ ActionDim >= 1
    /\ cfg.batch_size >= 1
    /\ 0 <= cfg.gamma /\ cfg.gamma <= GammaDen

(***************************************************************************)
(* SumoTrafficEnv and the simulator behind the traci module.               *)
(*                                                                         *)
(* traci keeps one default connection for the whole Python process:        *)
(* traci.start refuses to open it while one is registered, traci.close     *)
(* and every command fail with FatalTraCIError when none is registered or  *)
(* when the simulator process is gone, and a command the simulator         *)
(* rejects fails with TraCIException.                                      *)
(***************************************************************************)
DeltaTime == 2      \* delta_time of the environments
EnvMaxSteps == 3    \* max_steps of the environments
MaxStepCalls == 2   \* step calls per episode

EnvIds == {"A", "B"}

Service == "sumo_controller"

\* SumoTrafficEnv.__init__: the arguments are stored as they are given
NewEnv(max_steps, delta_time) ==
    [max_steps |-> max_steps, delta_time |-> delta_time,
     sumo_running |-> FALSE, current_step |-> 0,
     total_waiting_time |-> 0, total_queue_length |-> 0]

\* the reading of _get_total_waiting_time that goes with a state: the
\* vehicles of a long queue have waited, those of a short one have not
WaitingTimeOf(state) ==
    IF state[1] + state[2] + state[3] + state[4] > 15 THEN 7 ELSE 0

\* traci.start: [ok, conn, calls] for each way the call can end; calls are
\* the calls that went through
TraciStartOverwrites(conn) ==
    {[ok |-> TRUE, conn |-> "live", calls |-> <<"start">>],
     [ok |-> FALSE, conn |-> conn, calls |-> <<>>]}

TraciStart(conn) ==
    IF conn # "none"
    THEN {[ok |-> FALSE, conn |-> conn, calls |-> <<>>]}
    ELSE {[ok |-> TRUE, conn |-> "live", calls |-> <<"start">>],
          [ok |-> FALSE, conn |-> "none", calls |-> <<>>]}

\* traci.close
TraciClose(conn) ==
    IF conn = "none" THEN {[ok |-> FALSE, conn |-> conn, calls |-> <<>>]}
    ELSE IF conn = "live"
    THEN {[ok |-> TRUE, conn |-> "none", calls |-> <<"close">>]}
    ELSE {[ok |-> TRUE, conn |-> "none", calls |-> <<"close">>],
          [ok |-> FALSE, conn |-> conn, calls |-> <<>>]}

\* traci.isLoaded
TraciIsLoaded(conn) == conn # "none"

\* _get_state: a FatalTraCIError is not caught; a live simulator answers,
\* rejects the read of an edge (the TraCIException is caught and the edge
\* counts 0 vehicles), or goes away during the reads
NStates == 4        \* self.n_states, the number of incoming edges

\* the answer of getLastStepHaltingNumber when the simulator rejects the
\* read of an edge with a TraCIException
Rejected == 0 - 1

\* the answers of the simulator to the reads of the four incoming edges
\* n2c, s2c, e2c, w2c, in this order
EdgeReadings == ObsSpace \cup {[ObsOf(1) EXCEPT ![1] = Rejected]}

\* the body of "for edge in self.incoming_edges": the count is appended,
\* and 0 when the read was rejected
AppendReadingSkippingRejected(state, reading) ==
    IF reading = Rejected THEN state ELSE Append(state, reading)

AppendReading(state, reading) ==
    Append(state, IF reading = Rejected THEN 0 ELSE reading)

RECURSIVE StateOfReadings(_, _)
StateOfReadings(readings, n) ==
    IF n = 0 THEN <<>>
    ELSE AppendReading(StateOfReadings(readings, n - 1), readings[n])

ReadCalls(readings) ==
    IF \E i \in 1..Len(readings) : readings[i] = Rejected
    THEN <<"readRejected">> ELSE <<"read">>

GetState(conn) ==
    IF conn # "live"
    THEN {[ok |-> FALSE, conn |-> conn, calls |-> <<>>, state |-> <<>>]}
    ELSE {[ok |-> TRUE, conn |-> conn, calls |-> ReadCalls(r),
           state |-> StateOfReadings(r, Len(r))] : r \in EdgeReadings}
         \cup {[ok |-> FALSE, conn |-> "dead", calls |-> <<"read">>,
                state |-> <<>>]}

EnvRet(op, e, outcome, calls, val) ==
    [op |-> op, env |-> e, outcome |-> outcome, calls |-> calls, val |-> val]

\* The agent's and the buffer's variables in a run of the environment.
EnvFrame ==
    UNCHANGED <<bufvars, agentvars, histvars, loopvars, routevars>>

EnvInit ==
    /\ env = [e \in EnvIds |-> NewEnv(EnvMaxSteps, DeltaTime)]
    /\ connection = "none"
    /\ opener = "nobody"
    /\ _running = FALSE
    /\ capacity = 0
    /\ buffer = <<>>
    /\ pushed = <<>>
    /\ NoAgent
    /\ NoLoop
    /\ NoRoutes
    /\ ret = EnvRet("init", "A", "ok", <<>>, <<>>)

\* reset: "if self.sumo_running:" tears the running simulation down first
ResetSkipsTeardown(running) == FALSE

ResetTearsDown(running) == running

\* "if self.sumo_running: traci.close()" of reset and close
CloseIfRunning(running, conn) ==
    IF running THEN TraciClose(conn)
    ELSE {[ok |-> TRUE, conn |-> conn, calls |-> <<>>]}

OpenerAfter(conn, holder) == IF conn = "none" THEN "nobody" ELSE holder

\* reset: "self.current_step = 0; self.total_waiting_time = 0;
\* self.total_queue_length = 0"
ResetCountersKeepingStep(en) ==
    [en EXCEPT !.total_waiting_time = 0, !.total_queue_length = 0]

ResetCounters(en) ==
    [en EXCEPT !.current_step = 0, !.total_waiting_time = 0,
               !.total_queue_length = 0]

EnvReset(e) ==
    \E c \in CloseIfRunning(ResetTearsDown(env[e].sumo_running), connection) :
        LET torn == IF ResetTearsDown(env[e].sumo_running)
                    THEN FALSE ELSE env[e].sumo_running
        IN
        IF ~c.ok
        THEN \* traci.close() raised: sumo_running is not reached
             /\ ret' = EnvRet("reset", e, "FatalTraCIError", c.calls, <<>>)
             /\ connection' = c.conn
             /\ UNCHANGED <<env, opener, _running>>
        ELSE \E config_exists \in BOOLEAN :
             IF ~config_exists
             THEN /\ ret' = EnvRet("reset", e, "FileNotFoundError", c.calls, <<>>)
                  /\ env' = [env EXCEPT ![e].sumo_running = torn]
                  /\ connection' = c.conn
                  /\ opener' = OpenerAfter(c.conn, opener)
                  /\ UNCHANGED _running
             ELSE \E st \in TraciStart(c.conn) :
                  IF ~st.ok
                  THEN /\ ret' = EnvRet("reset", e, "RuntimeError",
                                        c.calls \o st.calls, <<>>)
                       /\ env' = [env EXCEPT ![e].sumo_running = torn]
                       /\ connection' = st.conn
                       /\ opener' = OpenerAfter(st.conn, opener)
                       /\ UNCHANGED _running
                  ELSE \E g \in GetState(st.conn) :
                       /\ ret' = EnvRet("reset", e,
                                        IF g.ok THEN "ok" ELSE "FatalTraCIError",
                                        c.calls \o st.calls \o g.calls, g.state)
                       /\ env' = [env EXCEPT ![e] =
                                    [ResetCounters(env[e]) EXCEPT
                                        !.sumo_running = TRUE]]
                       /\ connection' = g.conn
                       /\ opener' = e
                       /\ UNCHANGED _running

EnvClose(e) ==
    \E c \in CloseIfRunning(env[e].sumo_running, connection) :
        IF ~c.ok
        THEN /\ ret' = EnvRet("close", e, "FatalTraCIError", c.calls, <<>>)
             /\ connection' = c.conn
             /\ UNCHANGED <<env, opener, _running>>
        ELSE /\ ret' = EnvRet("close", e, "ok", c.calls, <<>>)
             /\ env' = [env EXCEPT ![e].sumo_running = FALSE]
             /\ connection' = c.conn
             /\ opener' = OpenerAfter(c.conn, opener)
             /\ UNCHANGED _running

\* _set_traffic_light_phase on a live simulator: the phase is set, or the
\* simulator rejects it and the TraCIException is caught
SetPhaseCalls == {<<"setPhase">>, <<"setPhaseRejected">>}

\* the simulationStep loop "for _ in range(self.delta_time)": the ticks it
\* completes; fewer than delta_time when the simulator goes away during
\* the loop
TicksCompleted(delta_time) ==
    IF delta_time <= 0 THEN {0} ELSE {0, delta_time - 1, delta_time}

QueueLength(state) == state[1] + state[2] + state[3] + state[4]

\* traci.simulation.getMinExpectedNumber() == 0, and the call as the
\* simulator saw it
MinExpectedCalls(min_expected_is_zero) ==
    IF min_expected_is_zero THEN <<"minExpectedZero">>
    ELSE <<"minExpectedPositive">>

\* "done = (self.current_step >= self.max_steps or
\*          traci.simulation.getMinExpectedNumber() == 0)"
Done(current_step, max_steps, min_expected_is_zero) ==
    current_step >= max_steps \/ min_expected_is_zero

\* env.step(action) of the environment e
Step(e, action) ==
    IF action \notin 0..(ActionDim - 1)
    THEN \* self.phases[action] raises KeyError
         /\ ret' = EnvRet("step", e, "KeyError", <<>>, <<>>)
         /\ UNCHANGED envvars
    ELSE IF connection # "live"
    THEN \* the first traci call raises FatalTraCIError
         /\ ret' = EnvRet("step", e, "FatalTraCIError", <<>>, <<>>)
         /\ UNCHANGED envvars
    ELSE
    \E phase \in SetPhaseCalls, ticks \in TicksCompleted(env[e].delta_time) :
       LET current_step == env[e].current_step + ticks
           stepped == IF ticks > 0 THEN <<"simulationStep">> ELSE <<>>
       IN
       IF ticks < env[e].delta_time
       THEN /\ ret' = EnvRet("step", e, "FatalTraCIError",
                             phase \o stepped, <<>>)
            /\ env' = [env EXCEPT ![e].current_step = current_step]
            /\ connection' = "dead"
            /\ UNCHANGED <<opener, _running>>
       ELSE \E g \in GetState(connection) :
            IF ~g.ok
            THEN /\ ret' = EnvRet("step", e, "FatalTraCIError",
                                  phase \o stepped \o g.calls, <<>>)
                 /\ env' = [env EXCEPT ![e].current_step = current_step]
                 /\ connection' = g.conn
                 /\ UNCHANGED <<opener, _running>>
            ELSE \E min_expected_is_zero \in BOOLEAN :
                 LET queue_length == QueueLength(g.state)
                     waiting_time == WaitingTimeOf(g.state)
                     done == Done(current_step, env[e].max_steps,
                                  min_expected_is_zero)
                 IN  /\ ret' = EnvRet("step", e, "ok",
                                      phase \o stepped \o g.calls
                                        \o MinExpectedCalls(min_expected_is_zero),
                                      [next_state |-> g.state,
                                       reward |-> RewardOf(g.state),
                                       done |-> done])
                     /\ env' = [env EXCEPT ![e] =
                           [env[e] EXCEPT
                              !.current_step = current_step,
                              !.total_queue_length =
                                  env[e].total_queue_length + queue_length,
                              !.total_waiting_time =
                                  env[e].total_waiting_time + waiting_time]]
                     /\ UNCHANGED <<connection, opener, _running>>

\* a step call on e with any argument, while the episode is within the
\* explored number of step calls
EnvStep(e) ==
    /\ connection = "live" => env[e].current_step < MaxStepCalls * DeltaTime
    /\ \E action \in 0..ActionDim : Step(e, action)

\* start_sumo with SUMO_ENABLED set
StartSumo ==
    IF TraciIsLoaded(connection) \/ _running
    THEN /\ ret' = EnvRet("start_sumo", Service, "ok", <<>>, <<>>)
         /\ UNCHANGED envvars
    ELSE \E st \in TraciStart(connection) :
         IF st.ok
         THEN /\ ret' = EnvRet("start_sumo", Service, "ok", st.calls, <<>>)
              /\ _running' = TRUE
              /\ connection' = st.conn
              /\ opener' = Service
              /\ UNCHANGED env
         ELSE \* the failure is caught; the getIDList after it then raises
              /\ ret' = EnvRet("start_sumo", Service, "FatalTraCIError",
                               st.calls, <<>>)
              /\ UNCHANGED envvars

\* the simulator process ends on its own
SimulatorDies ==
    /\ connection = "live"
    /\ connection' = "dead"
    /\ ret' = EnvRet("simulator_dies", opener, "ok", <<>>, <<>>)
    /\ UNCHANGED <<env, opener, _running>>

EnvNext ==
    \/ \E e \in EnvIds : EnvReset(e) /\ EnvFrame
    \/ \E e \in EnvIds : EnvStep(e) /\ EnvFrame
    \/ \E e \in EnvIds : EnvClose(e) /\ EnvFrame
    \/ StartSumo /\ EnvFrame
    \/ SimulatorDies /\ EnvFrame

SpecEnv == EnvInit /\ [][EnvNext]_vars

(***************************************************************************)
(* Helpers of the statements about the environment.                        *)
(***************************************************************************)
Holders == EnvIds \cup {Service}

\* the holder believes it has a live connection
Believes(h) == IF h = Service THEN _running ELSE env[h].sumo_running

Position(calls, c) == {i \in 1..Len(calls) : calls[i] = c}

(***************************************************************************)
(* C16: step(action) on an environment that was never reset or that has    *)
(* been closed fails with an InvalidStateError, sends no command to the    *)
(* simulator and changes neither current_step nor the episode totals.      *)
(***************************************************************************)
C16_StepRequiresReady ==
    [][(ret'.op = "step" /\ ~env[ret'.env].sumo_running)
        => /\ ret'.outcome = "InvalidStateError"
           /\ ret'.calls = <<>>
           /\ env' = env]_vars

\* What the code does: while the process has no connection such a step
\* raises (FatalTraCIError from traci, or KeyError for an unknown action)
\* before anything is sent or changed.
C16_StepWithoutConnectionRaises ==
    [][(ret'.op = "step" /\ connection = "none")
        => /\ ret'.outcome \in {"FatalTraCIError", "KeyError"}
           /\ ret'.calls = <<>>
           /\ env' = env]_vars

(***************************************************************************)
(* C17: close() is idempotent and safe in every state: before any reset,   *)
(* while running or when already closed it never fails, afterwards         *)
(* sumo_running is false, and a close of an environment that is already    *)
(* closed sends nothing to the simulator.                                  *)
(***************************************************************************)
C17_CloseEnds(e, r) ==
    /\ r.outcome = "ok"
    /\ ~env'[e].sumo_running
    /\ ~env[e].sumo_running => (r.calls = <<>> /\ connection' = connection)

C17_CloseIsSafe == [][ret'.op = "close" => C17_CloseEnds(ret'.env, ret')]_vars

\* The same while the simulator process has not gone away.
C17_CloseIsSafeWhileSimulatorRuns ==
    [][(ret'.op = "close" /\ connection # "dead")
        => C17_CloseEnds(ret'.env, ret')]_vars

(***************************************************************************)
(* C18: reset() tears down the simulation this environment is running      *)
(* before it starts a new one: every start of the simulator comes after a  *)
(* close of the connection that was open, so the environment never has     *)
(* two connections open at once.                                           *)
(***************************************************************************)
C18_ResetTearsDownFirst ==
    [][ret'.op = "reset"
        => /\ \A i \in Position(ret'.calls, "start") :
                \/ connection = "none"
                \/ \E j \in Position(ret'.calls, "close") : j < i
           /\ (env[ret'.env].sumo_running /\ connection = "live")
                => (ret'.calls # <<>> /\ ret'.calls[1] = "close")]_vars

\* a reset of a running environment that closed, started and read
C18_Witness ==
    /\ ret.op = "reset"
    /\ ret.outcome = "ok"
    /\ ret.calls = <<"close", "start", "read">>
    /\ env[ret.env].sumo_running
    /\ connection = "live"

(***************************************************************************)
(* C19: whenever reset() exits by raising (missing config file, failure    *)
(* while closing the previous simulation, failure to start the simulator,  *)
(* failure while reading the initial state), no connection opened by this  *)
(* environment remains open, and sumo_running is true only if a            *)
(* connection is actually open.                                            *)
(***************************************************************************)
C19_FailedResetReleases ==
    [][(ret'.op = "reset" /\ ret'.outcome # "ok")
        => /\ ~(opener' = ret'.env /\ connection' # "none")
           /\ env'[ret'.env].sumo_running
                => (opener' = ret'.env /\ connection' = "live")]_vars

\* The exits before the simulator is started that do not fail in
\* traci.close: they leave no connection of this environment behind.
C19_EarlyExitsRelease ==
    [][(ret'.op = "reset" /\ ret'.outcome \in {"FileNotFoundError", "RuntimeError"})
        => /\ ~(opener' = ret'.env /\ connection' # "none")
           /\ ~env'[ret'.env].sumo_running]_vars

(***************************************************************************)
(* C20: at most one holder (an environment or the service layer) believes  *)
(* it has a live connection: a second acquirer that tries to connect       *)
(* while another holder's connection is registered fails and leaves that   *)
(* connection as it is.                                                    *)
(***************************************************************************)
C20_SingleHolder ==
    /\ [](Cardinality({h \in Holders : Believes(h)}) <= 1)
    /\ [](\A h \in Holders : Believes(h) => (opener = h /\ connection # "none"))
    /\ [][(/\ ret'.op \in {"reset", "start_sumo"}
           /\ connection # "none"
           /\ opener # ret'.env)
            => /\ connection' = connection
               /\ opener' = opener
               /\ IF ret'.env = Service THEN ~_running'
                  ELSE ~env'[ret'.env].sumo_running]_vars

\* a reset refused while another environment holds the live connection
C20_Witness ==
    /\ ret.op = "reset"
    /\ ret.outcome = "RuntimeError"
    /\ connection = "live"
    /\ opener \in EnvIds \ {ret.env}
    /\ Believes(opener)

(***************************************************************************)
(* evaluate_fixed_time_baseline(env, n_episodes, cycle_length) on a        *)
(* SumoTrafficEnv.  The prints and the averages it returns are left out.   *)
(***************************************************************************)
CycleLength == 20   \* the default cycle_length

\* step calls explored in one episode
MaxEpisodeSteps == 2 * CycleLength

\* the runs explored: the arguments of the call and the configuration of
\* the environment it is given
BaselineRuns ==
    {[n_episodes |-> 2, cycle_length |-> 1,
      max_steps |-> EnvMaxSteps, delta_time |-> DeltaTime],
     [n_episodes |-> 1, cycle_length |-> CycleLength,
      max_steps |-> 2 * CycleLength, delta_time |-> 1],
     [n_episodes |-> 1, cycle_length |-> 2,
      max_steps |-> EnvMaxSteps, delta_time |-> 0]}

\* "action = 0 if (step_count // cycle_length) % 2 == 0 else 1", among the
\* locals of the loop
FixedTimeActionOfState(step_count, cycle_length, state) ==
    IF state[1] + state[2] >= state[3] + state[4] THEN 0 ELSE 1

FixedTimeAction(step_count, cycle_length, state) ==
    IF (step_count \div cycle_length) % 2 = 0 THEN 0 ELSE 1

\* the environment the loops run on
LoopEnv == "A"

BaselineInit ==
    /\ \E run \in BaselineRuns :
          /\ env = [e \in EnvIds |-> NewEnv(run.max_steps, run.delta_time)]
          /\ loop = [fn |-> "evaluate_fixed_time_baseline", pc |-> "reset",
                     n_episodes |-> run.n_episodes,
                     cycle_length |-> run.cycle_length,
                     episode |-> 0, state |-> <<>>, episode_reward |-> 0,
                     done |-> FALSE, step_count |-> 0, action |-> 0,
                     total_rewards |-> <<>>, total_queues |-> <<>>,
                     total_waiting_times |-> <<>>]
    /\ trace = [actions |-> <<>>]
    /\ NoRoutes
    /\ connection = "none"
    /\ opener = "nobody"
    /\ _running = FALSE
    /\ capacity = 0
    /\ buffer = <<>>
    /\ pushed = <<>>
    /\ NoAgent
    /\ ret = EnvRet("init", LoopEnv, "ok", <<>>, <<>>)

\* "state = env.reset(); episode_reward = 0; done = False; step_count = 0";
\* an exception of reset leaves the function
BaselineReset ==
    /\ loop.pc = "reset"
    /\ EnvReset(LoopEnv)
    /\ loop' = IF ret'.outcome = "ok"
               THEN [loop EXCEPT !.pc = "step", !.state = ret'.val,
                                 !.episode_reward = 0, !.done = FALSE,
                                 !.step_count = 0]
               ELSE [loop EXCEPT !.pc = "raised"]
    /\ trace' = [actions |-> <<>>]
    /\ UNCHANGED <<bufvars, agentvars, histvars, routevars>>

\* one pass of the body of "while not done", and the statements after the
\* loop when the step returned done
BaselineStep ==
    /\ loop.pc = "step"
    /\ loop.step_count < MaxEpisodeSteps
    /\ LET action == FixedTimeAction(loop.step_count, loop.cycle_length,
                                     loop.state)
       IN  /\ Step(LoopEnv, action)
           /\ trace' = [actions |-> Append(trace.actions, action)]
           /\ loop' =
                IF ret'.outcome # "ok"
                THEN [loop EXCEPT !.pc = "raised", !.action = action]
                ELSE LET episode_reward ==
                             loop.episode_reward + ret'.val.reward
                         stepped ==
                             [loop EXCEPT
                                !.action = action,
                                !.done = ret'.val.done,
                                !.episode_reward = episode_reward,
                                !.step_count = loop.step_count + 1]
                     IN  IF ~ret'.val.done THEN stepped
                         ELSE [stepped EXCEPT
                                 !.total_rewards = Append(@, episode_reward),
                                 !.total_queues =
                                     Append(@, env'[LoopEnv].total_queue_length),
                                 !.total_waiting_times =
                                     Append(@, env'[LoopEnv].total_waiting_time),
                                 !.episode = loop.episode + 1,
                                 !.pc = IF loop.episode + 1 < loop.n_episodes
                                        THEN "reset" ELSE "returned"]
    /\ UNCHANGED <<bufvars, agentvars, histvars, routevars>>

\* the simulator of the running episode ends on its own
LoopSimulatorDies ==
    /\ loop.pc = "step"
    /\ SimulatorDies
    /\ UNCHANGED <<bufvars, agentvars, histvars, loopvars, routevars>>

BaselineNext ==
    \/ BaselineReset
    \/ BaselineStep
    \/ LoopSimulatorDies

SpecBaseline == BaselineInit /\ [][BaselineNext]_vars

(***************************************************************************)
(* Helpers of the statements about episodes.                               *)
(***************************************************************************)
StepReturned == ret.op = "step" /\ ret.outcome = "ok"

Called(calls, c) == \E i \in 1..Len(calls) : calls[i] = c

\* done is true exactly when the ticks since the last reset have reached
\* max_steps or the simulator expects no further vehicles
C21_DoneExactlyAtBudgetOrNoVehicles ==
    StepReturned =>
        (ret.val.done <=>
            \/ env[ret.env].current_step >= env[ret.env].max_steps
            \/ Called(ret.calls, "minExpectedZero"))

\* the step calls of the episode are within ceil(max_steps / delta_time):
\* some k with k * delta_time >= max_steps is at least their number
C21_WithinStepBudget ==
    StepReturned =>
        \E k \in 0..MaxEpisodeSteps :
            /\ k * env[ret.env].delta_time >= env[ret.env].max_steps
            /\ loop.step_count <= k

(***************************************************************************)
(* C21: step returns done = true exactly when current_step >= max_steps    *)
(* or the simulator reports no further expected vehicles, and for every    *)
(* environment configuration an episode driven by repeated step calls      *)
(* returns done = true after at most ceil(max_steps / delta_time) step     *)
(* calls.                                                                  *)
(***************************************************************************)
C21_DoneWithinStepBudget ==
    C21_DoneExactlyAtBudgetOrNoVehicles /\ C21_WithinStepBudget

\* The same statement for the environments with delta_time >= 1, where the
\* code meets it.
C21_DoneWithinStepBudgetForPositiveDeltaTime ==
    /\ C21_DoneExactlyAtBudgetOrNoVehicles
    /\ env[LoopEnv].delta_time >= 1 => C21_WithinStepBudget

(***************************************************************************)
(* The reward of step as a function of the state it returns, over every    *)
(* vector of four queue lengths up to MaxQueue.                            *)
(***************************************************************************)
MaxQueue == 5       \* largest queue length of one edge

RewardInit ==
    /\ \E next_state \in [1..4 -> 0..MaxQueue] :
          ret = [op |-> "_get_state", val |-> next_state, reward |-> 0]
    /\ capacity = 0
    /\ buffer = <<>>
    /\ pushed = <<>>
    /\ NoAgent
    /\ NoEnv
    /\ NoLoop
    /\ NoRoutes

\* the reward computed from "next_state = self._get_state()"
RewardStep ==
    /\ ret.op = "_get_state"
    /\ ret' = [op |-> "reward", val |-> ret.val, reward |-> RewardOf(ret.val)]
    /\ UNCHANGED <<bufvars, agentvars, histvars, envvars, loopvars, routevars>>

RewardNext == RewardStep

SpecReward == RewardInit /\ [][RewardNext]_vars

C23_RejectionEndsEpisode ==
    (StepReturned /\ (\/ Called(ret.calls, "setPhaseRejected")
                      \/ Called(ret.calls, "readRejected")))
        => ret.val.done

\* What the code does instead: a step whose command or read was rejected
\* returns done by the step budget and the expected vehicles alone.
C23_RejectionLeavesDoneAsComputed ==
    (StepReturned /\ (\/ Called(ret.calls, "setPhaseRejected")
                      \/ Called(ret.calls, "readRejected")))
        => (ret.val.done <=>
               \/ env[ret.env].current_step >= env[ret.env].max_steps
               \/ Called(ret.calls, "minExpectedZero"))

(***************************************************************************)
(* train_dqn(env, agent, n_episodes, target_update_freq) as main calls     *)
(* it: on a SumoTrafficEnv, or on a stand-in environment whose reset       *)
(* returns the state [5,5,5,5] and whose step returns that state, the      *)
(* reward -20 and done = True.  The prints are left out.                   *)
(***************************************************************************)
Stub == "stub"

StubState == <<5, 5, 5, 5>>

StubReward == 0 - 20

\* the info dictionary of step
Info(step, queue_length, waiting_time, total_queue, total_waiting) ==
    [step |-> step, queue_length |-> queue_length,
     waiting_time |-> waiting_time, total_queue |-> total_queue,
     total_waiting |-> total_waiting]

NoInfo == Info(0, 0, 0, 0, 0)

\* the runs explored: the environment, the arguments of train_dqn and the
\* buffer_size and batch_size of the agent.  An agent whose batch_size is
\* above its buffer_size never takes a gradient step.
TrainRuns ==
    {[env |-> LoopEnv, n_episodes |-> 2, target_update_freq |-> 2,
      buffer_size |-> 1, batch_size |-> 2],
     [env |-> LoopEnv, n_episodes |-> 1, target_update_freq |-> 1,
      buffer_size |-> 1, batch_size |-> 1],
     [env |-> Stub, n_episodes |-> 3, target_update_freq |-> 2,
      buffer_size |-> 2, batch_size |-> 1],
     [env |-> Stub, n_episodes |-> 2, target_update_freq |-> 1,
      buffer_size |-> 1, batch_size |-> 1],
     [env |-> Stub, n_episodes |-> 3, target_update_freq |-> 2,
      buffer_size |-> 2, batch_size |-> 2],
     [env |-> Stub, n_episodes |-> 2, target_update_freq |-> 1,
      buffer_size |-> 1, batch_size |-> 0]}

\* the locals of an episode loop before its first episode
NewLoop(fn, run) ==
    [fn |-> fn, pc |-> "reset", env |-> run.env,
     n_episodes |-> run.n_episodes,
     target_update_freq |-> run.target_update_freq,
     episode |-> 0, state |-> <<>>, action |-> 0, next_state |-> <<>>,
     reward |-> 0, done |-> FALSE, info |-> NoInfo, episode_reward |-> 0,
     step_count |-> 0, episode_rewards |-> <<>>, episode_stats |-> <<>>]

\* what the history keeps of a run: the state and the action of the last
\* get_action, the return of the last step, the step and store_transition
\* calls made, the update_target_network calls made, and epsilon and the
\* target parameters as they were at the last reset, and the calls of the
\* loop since, and with, the last reset
NewTrace ==
    [selected |-> <<>>, stepped |-> <<>>, steps |-> 0, stores |-> 0,
     updates |-> 0, epsilon |-> <<>>, target_network |-> <<>>,
     calls |-> <<>>]

\* the training argument of get_action: "training=True" in train_dqn,
\* "training=False" in evaluate_agent
TrainingFlagAlwaysOn(fn) == TRUE

TrainingFlag(fn) == fn = "train_dqn"

\* a freshly constructed agent, as main builds it, for one run
LoopAgentInit(run) ==
    /\ capacity = run.buffer_size
    /\ cfg = [batch_size |-> run.batch_size, gamma |-> 1,
              epsilon |-> <<1, 1>>, epsilon_decay |-> <<1, 2>>,
              epsilon_min |-> <<1, 8>>]
    /\ buffer = <<>>
    /\ pushed = <<>>
    /\ q_network = Theta(0)
    /\ target_network = q_network
    /\ optimizer = 0
    /\ loss_history = <<>>
    /\ epsilon = cfg.epsilon
    /\ saved = NoFile
    /\ snapshots = {q_network}
    /\ restored = {}
    /\ calc = NoCalc
    /\ decays = 0

LoopEnvInit ==
    /\ env = [e \in EnvIds |-> NewEnv(EnvMaxSteps, DeltaTime)]
    /\ connection = "none"
    /\ opener = "nobody"
    /\ _running = FALSE

TrainInit ==
    /\ \E run \in TrainRuns :
          /\ LoopAgentInit(run)
          /\ loop = NewLoop("train_dqn", run)
    /\ LoopEnvInit
    /\ trace = NewTrace
    /\ NoRoutes
    /\ ret = Ret("init", 0, "ok", NoBatch, 0)

\* env.reset() of the loop's environment
LoopReset(e) ==
    IF e = Stub
    THEN /\ ret' = EnvRet("reset", e, "ok", <<>>, StubState)
         /\ UNCHANGED envvars
    ELSE EnvReset(e)

\* env.step(action) of the loop's environment
LoopStep(e, action) ==
    IF e = Stub
    THEN /\ ret' = EnvRet("step", e, "ok", <<>>,
                          [next_state |-> StubState, reward |-> StubReward,
                           done |-> TRUE])
         /\ UNCHANGED envvars
    ELSE Step(e, action)

\* the info that goes with the step that just returned
LoopInfo(e) ==
    IF e = Stub THEN NoInfo
    ELSE Info(env'[e].current_step, QueueLength(ret'.val.next_state),
              WaitingTimeOf(ret'.val.next_state),
              env'[e].total_queue_length, env'[e].total_waiting_time)

\* "state = env.reset(); episode_reward = 0; done = False; step_count = 0";
\* an exception of reset leaves the function
TrainReset ==
    /\ loop.fn = "train_dqn"
    /\ loop.pc = "reset"
    /\ LoopReset(loop.env)
    /\ loop' = IF ret'.outcome = "ok"
               THEN [loop EXCEPT !.pc = "get_action", !.state = ret'.val,
                                 !.episode_reward = 0, !.done = FALSE,
                                 !.step_count = 0]
               ELSE [loop EXCEPT !.pc = "raised"]
    /\ trace' = [trace EXCEPT !.epsilon = epsilon,
                              !.target_network = target_network,
                              !.calls = <<"reset">>]
    /\ UNCHANGED <<bufvars, agentvars, histvars, routevars>>

\* "action = agent.get_action(state, training=True)"
TrainGetAction ==
    /\ loop.fn = "train_dqn"
    /\ loop.pc = "get_action"
    /\ GetAction(loop.state, TrainingFlag(loop.fn))
    /\ loop' = [loop EXCEPT !.pc = "step", !.action = ret'.val]
    /\ trace' = [trace EXCEPT
                   !.selected = [state |-> loop.state, action |-> ret'.val],
                   !.calls = Append(@, "get_action")]
    /\ UNCHANGED <<pushed, histvars, envvars, routevars>>

\* "next_state, reward, done, info = env.step(action)"; an exception of
\* step leaves the function
TrainStep ==
    /\ loop.fn = "train_dqn"
    /\ loop.pc = "step"
    /\ LoopStep(loop.env, loop.action)
    /\ loop' = IF ret'.outcome = "ok"
               THEN [loop EXCEPT !.pc = "store_transition",
                                 !.next_state = ret'.val.next_state,
                                 !.reward = ret'.val.reward,
                                 !.done = ret'.val.done,
                                 !.info = LoopInfo(loop.env)]
               ELSE [loop EXCEPT !.pc = "raised"]
    /\ trace' = IF ret'.outcome = "ok"
                THEN [trace EXCEPT !.stepped = ret'.val, !.steps = @ + 1,
                                   !.calls = Append(@, "step")]
                ELSE [trace EXCEPT !.calls = Append(@, "step")]
    /\ UNCHANGED <<bufvars, agentvars, histvars, routevars>>

\* the transition handed to store_transition
StoredTransitionFromNextState(l) ==
    [state |-> l.next_state, action |-> l.action, reward |-> l.reward,
     next_state |-> l.next_state, done |-> l.done]

StoredTransition(l) ==
    [state |-> l.state, action |-> l.action, reward |-> l.reward,
     next_state |-> l.next_state, done |-> l.done]

\* "agent.store_transition(state, action, reward, next_state, done)"
TrainStoreTransition ==
    /\ loop.fn = "train_dqn"
    /\ loop.pc = "store_transition"
    /\ StoreTransition(StoredTransition(loop))
    /\ loop' = [loop EXCEPT !.pc = "train"]
    /\ trace' = [trace EXCEPT !.stores = @ + 1,
                              !.calls = Append(@, "store_transition")]
    /\ UNCHANGED <<pushed, histvars, envvars, routevars>>

\* "while not done": where the loop goes after the body
PcAfterBodyIgnoringDone(done) == "decay_epsilon"

PcAfterBodyNeverDone(done) == "get_action"

PcAfterBody(done) == IF done THEN "decay_epsilon" ELSE "get_action"

\* "loss = agent.train(); state = next_state; episode_reward += reward;
\* step_count += 1" and the test of "while not done"; an exception of
\* train leaves the function
TrainTrain ==
    /\ loop.fn = "train_dqn"
    /\ loop.pc = "train"
    /\ Train
    /\ loop' = IF ret'.outcome \notin {"None", "loss"}
               THEN [loop EXCEPT !.pc = "raised"]
               ELSE [loop EXCEPT
                       !.pc = PcAfterBody(loop.done),
                       !.state = loop.next_state,
                       !.episode_reward = @ + loop.reward,
                       !.step_count = @ + 1]
    /\ trace' = [trace EXCEPT !.calls = Append(@, "train")]
    /\ UNCHANGED <<pushed, histvars, envvars, routevars>>

\* "if (episode + 1) % target_update_freq == 0"
TargetUpdateDueZeroBased(episode, target_update_freq) ==
    episode % target_update_freq = 0

TargetUpdateDue(episode, target_update_freq) ==
    (episode + 1) % target_update_freq = 0

\* "episode_rewards.append(episode_reward); episode_stats.append(info)" and
\* the next pass of "for episode in range(n_episodes)"
EpisodeEnd(l) ==
    [l EXCEPT !.episode_rewards = Append(@, l.episode_reward),
              !.episode_stats = Append(@, l.info),
              !.episode = @ + 1,
              !.pc = IF l.episode + 1 < l.n_episodes
                     THEN "reset" ELSE "returned"]

\* "agent.decay_epsilon()", and the end of the episode when no update of
\* the target network is due
TrainDecayEpsilon ==
    /\ loop.fn = "train_dqn"
    /\ loop.pc = "decay_epsilon"
    /\ AgentDecayEpsilon
    /\ loop' = IF TargetUpdateDue(loop.episode, loop.target_update_freq)
               THEN [loop EXCEPT !.pc = "update_target_network"]
               ELSE EpisodeEnd(loop)
    /\ decays' = decays + 1
    /\ trace' = [trace EXCEPT !.calls = Append(@, "decay_epsilon")]
    /\ UNCHANGED <<pushed, snapshots, restored, envvars, routevars>>

\* "agent.update_target_network()" and the end of the episode
TrainUpdateTargetNetwork ==
    /\ loop.fn = "train_dqn"
    /\ loop.pc = "update_target_network"
    /\ AgentUpdateTargetNetwork
    /\ loop' = EpisodeEnd(loop)
    /\ trace' = [trace EXCEPT !.updates = @ + 1,
                              !.calls = Append(@, "update_target_network")]
    /\ UNCHANGED <<pushed, histvars, envvars, routevars>>

\* main: "except Exception" prints the error train_dqn raised, and
\* "finally: env.close()"
MainExcept ==
    /\ loop.pc = "raised"
    /\ IF loop.env = Stub
       THEN /\ ret' = EnvRet("close", loop.env, "ok", <<>>, <<>>)
            /\ UNCHANGED envvars
       ELSE EnvClose(loop.env)
    /\ loop' = [loop EXCEPT !.pc = "exited"]
    /\ UNCHANGED <<bufvars, agentvars, histvars, trace, routevars>>

TrainNext ==
    \/ TrainReset
    \/ TrainGetAction
    \/ TrainStep
    \/ TrainStoreTransition
    \/ TrainTrain
    \/ TrainDecayEpsilon
    \/ TrainUpdateTargetNetwork
    \/ MainExcept
    \/ LoopSimulatorDies

SpecTrain == TrainInit /\ [][TrainNext]_vars

(***************************************************************************)
(* Helpers of the statements about train_dqn.                              *)
(***************************************************************************)
\* the loop is inside an episode: between a reset that returned a state
\* and the decay that follows the last step
InEpisode ==
    loop.pc \in {"get_action", "step", "store_transition", "train",
                 "decay_epsilon"}

StepFailed == loop.pc = "step" /\ ret'.op = "step" /\ ret'.outcome # "ok"

ResetFailed == loop.pc = "reset" /\ ret'.op = "reset" /\ ret'.outcome # "ok"

(***************************************************************************)
(* C24: a failure raised by env.step during episode i is caught for that   *)
(* episode and does not end the run: the loop goes on to episode i + 1,    *)
(* or returns when episode i was the last; only a failure of env.reset     *)
(* ends the training invocation.                                           *)
(***************************************************************************)
C24_StepFailureIsCaught ==
    [][/\ StepFailed =>
            /\ loop'.episode = loop.episode + 1
            /\ loop'.pc = IF loop.episode + 1 < loop.n_episodes
                          THEN "reset" ELSE "returned"
       /\ ResetFailed => loop'.pc = "raised"]_vars

\* What the code does instead: a failure of step, like one of reset, leaves
\* train_dqn, main closes the environment, and no further episode is
\* attempted.
C24_StepFailureEndsRun ==
    [][/\ (StepFailed \/ ResetFailed) => loop'.pc = "raised"
       /\ loop.pc = "raised" =>
            /\ loop'.pc = "exited"
            /\ ret'.op = "close"
            /\ loop'.episode = loop.episode
       /\ loop.pc = "exited" => loop' = loop]_vars

\* the decay_epsilon calls made when loop.episode episodes are completed
DecaysOf(l) ==
    l.episode + (IF l.pc = "update_target_network" THEN 1 ELSE 0)

(***************************************************************************)
(* C25: in train_dqn decay_epsilon is called exactly once per completed    *)
(* episode and never inside one: every call comes after the step that      *)
(* returned done = true, when that step's transition has been stored, and  *)
(* before the next reset; epsilon is the same at every get_action of an    *)
(* episode; and after k completed episodes exactly k calls have been made, *)
(* so epsilon is max(epsilon_min, epsilon_0 * epsilon_decay^k).            *)
(***************************************************************************)
C25_DecayOncePerEpisode ==
    /\ [](decays = DecaysOf(loop))
    /\ [](epsilon = PyMax(cfg.epsilon_min,
                          FracMul(cfg.epsilon, FracPow(cfg.epsilon_decay, decays))))
    /\ [](InEpisode => epsilon = trace.epsilon)
    /\ [][/\ ret'.op = "get_action" => epsilon = trace.epsilon
          /\ ret'.op = "decay_epsilon" =>
                /\ trace.stepped.done
                /\ trace.stores = trace.steps
                /\ loop.step_count >= 1
                /\ loop'.pc # "get_action"
          /\ epsilon' # epsilon => ret'.op = "decay_epsilon"
          /\ ret'.op = "reset" => decays = loop.episode]_vars

\* two episodes run on the simulator, the first of two steps: two decays
\* have taken epsilon from 1 to 1/4
C25_Witness ==
    /\ loop.fn = "train_dqn"
    /\ loop.pc = "returned"
    /\ loop.env = LoopEnv
    /\ loop.episode = 2
    /\ loop.episode_stats[1].step = 2 * DeltaTime
    /\ decays = 2
    /\ epsilon = <<1, 4>>

(***************************************************************************)
(* C26: in train_dqn update_target_network is called on an episode         *)
(* cadence and never per step: exactly after each episode whose 1-based    *)
(* index is a multiple of target_update_freq, after that episode's decay,  *)
(* and nowhere else; after N episodes it has been called                   *)
(* floor(N / target_update_freq) times; and the target parameters are the  *)
(* same throughout an episode.                                             *)
(***************************************************************************)
C26_TargetUpdateCadence ==
    /\ [](trace.updates = loop.episode \div loop.target_update_freq)
    /\ [](InEpisode => target_network = trace.target_network)
    /\ [][/\ ret'.op = "update_target_network" =>
                /\ (loop.episode + 1) % loop.target_update_freq = 0
                /\ loop.pc = "update_target_network"
                /\ trace.stepped.done
                /\ decays = loop.episode + 1
                /\ loop'.episode = loop.episode + 1
                /\ target_network' = q_network
          /\ (loop'.episode = loop.episode + 1
                /\ (loop.episode + 1) % loop.target_update_freq = 0)
                => ret'.op = "update_target_network"
          /\ target_network' # target_network
                => ret'.op = "update_target_network"]_vars

\* three episodes with target_update_freq = 2: the one update came after
\* the second episode, and the gradient step of the third has moved the
\* online parameters away from the target
C26_Witness ==
    /\ loop.fn = "train_dqn"
    /\ loop.pc = "returned"
    /\ loop.episode = 3
    /\ loop.target_update_freq = 2
    /\ trace.updates = 1
    /\ Len(loss_history) = 3
    /\ target_network # q_network
    /\ target_network # Theta(0)

(***************************************************************************)
(* C29: for every env.step taken in train_dqn exactly one transition is    *)
(* stored, made of the state the action was selected from, the selected    *)
(* action, and the reward, next state and done flag that step returned;    *)
(* the following selection is made from that next state.  On the stand-in  *)
(* environment (state [5,5,5,5], reward -20, done = true on the first      *)
(* step) the first stored transition has reward -20 and done = true, and   *)
(* train() with batch_size = 1 computes the target -20.                    *)
(***************************************************************************)
C29_StepStoresItsTransition ==
    /\ [](trace.stores =
             trace.steps - (IF loop.pc = "store_transition" THEN 1 ELSE 0))
    /\ [][/\ ret'.op = "store_transition" =>
                /\ Len(buffer') >= 1
                /\ buffer'[Len(buffer')] =
                      [state |-> trace.selected.state,
                       action |-> trace.selected.action,
                       reward |-> trace.stepped.reward,
                       next_state |-> trace.stepped.next_state,
                       done |-> trace.stepped.done]
                /\ Len(buffer) < capacity => buffer' = Append(buffer, buffer'[Len(buffer')])
          /\ (ret'.op = "get_action" /\ loop.step_count >= 1) =>
                ret'.k[1] = trace.stepped.next_state
          /\ (ret'.op = "get_action" /\ loop.step_count = 0) =>
                (ret.op = "reset" /\ ret'.k[1] = ret.val)
          /\ buffer' # buffer => ret'.op = "store_transition"]_vars
    /\ []((loop.env = Stub /\ trace.stores >= 1) =>
             /\ buffer[1].reward = StubReward
             /\ buffer[1].done)
    /\ []((loop.env = Stub /\ cfg.batch_size = 1 /\ Len(loss_history) >= 1) =>
             calc.target_q = <<StubReward * GammaDen>>)

\* the stand-in environment after one reset, one step and the train() that
\* follows it
C29_Witness ==
    /\ loop.fn = "train_dqn"
    /\ loop.env = Stub
    /\ ret.op = "train"
    /\ trace.steps = 1
    /\ buffer = <<[state |-> StubState, action |-> loop.action,
                   reward |-> StubReward, next_state |-> StubState,
                   done |-> TRUE]>>
    /\ cfg.batch_size = 1
    /\ Len(loss_history) = 1
    /\ calc.target_q = <<StubReward * GammaDen>>

(***************************************************************************)
(* main after train_dqn has returned: agent.save, then                     *)
(* evaluate_agent(env, agent, n_episodes) on the environment and the       *)
(* agent of the training.  The prints and the averages are left out.       *)
(***************************************************************************)
EvalEpisodes == 1   \* n_episodes of the evaluation

\* what the history keeps of the agent
AgentState ==
    <<buffer, q_network, target_network, optimizer, loss_history, epsilon>>

\* the locals of evaluate_agent before its first episode
NewEvalLoop(e, n_episodes) ==
    [fn |-> "evaluate_agent", pc |-> "reset", env |-> e,
     n_episodes |-> n_episodes, episode |-> 0, state |-> <<>>,
     action |-> 0, episode_reward |-> 0, done |-> FALSE,
     total_rewards |-> <<>>, total_queues |-> <<>>,
     total_waiting_times |-> <<>>]

\* "agent.save(...)" and the call of evaluate_agent
MainSaveAndEvaluate ==
    /\ loop.fn = "train_dqn"
    /\ loop.pc = "returned"
    /\ AgentSave
    /\ loop' = NewEvalLoop(loop.env, EvalEpisodes)
    /\ trace' = [before |-> AgentState]
    /\ UNCHANGED <<pushed, histvars, envvars, routevars>>

\* "state = env.reset(); episode_reward = 0; done = False"
EvalReset ==
    /\ loop.fn = "evaluate_agent"
    /\ loop.pc = "reset"
    /\ LoopReset(loop.env)
    /\ loop' = IF ret'.outcome = "ok"
               THEN [loop EXCEPT !.pc = "get_action", !.state = ret'.val,
                                 !.episode_reward = 0, !.done = FALSE]
               ELSE [loop EXCEPT !.pc = "raised"]
    /\ UNCHANGED <<bufvars, agentvars, histvars, trace, routevars>>

\* "action = agent.get_action(state, training=False)"
EvalGetAction ==
    /\ loop.fn = "evaluate_agent"
    /\ loop.pc = "get_action"
    /\ GetAction(loop.state, TrainingFlag(loop.fn))
    /\ loop' = [loop EXCEPT !.pc = "step", !.action = ret'.val]
    /\ UNCHANGED <<pushed, histvars, envvars, trace, routevars>>

\* "next_state, reward, done, info = env.step(action); state = next_state;
\* episode_reward += reward", and the statements after the loop when the
\* step returned done
EvalStep ==
    /\ loop.fn = "evaluate_agent"
    /\ loop.pc = "step"
    /\ LoopStep(loop.env, loop.action)
    /\ loop' =
         IF ret'.outcome # "ok"
         THEN [loop EXCEPT !.pc = "raised"]
         ELSE LET episode_reward == loop.episode_reward + ret'.val.reward
                  stepped == [loop EXCEPT !.pc = "get_action",
                                          !.state = ret'.val.next_state,
                                          !.done = ret'.val.done,
                                          !.episode_reward = episode_reward]
              IN  IF ~ret'.val.done THEN stepped
                  ELSE [stepped EXCEPT
                          !.total_rewards = Append(@, episode_reward),
                          !.total_queues =
                              Append(@, LoopInfo(loop.env).total_queue),
                          !.total_waiting_times =
                              Append(@, LoopInfo(loop.env).total_waiting),
                          !.episode = loop.episode + 1,
                          !.pc = IF loop.episode + 1 < loop.n_episodes
                                 THEN "reset" ELSE "returned"]
    /\ UNCHANGED <<bufvars, agentvars, histvars, trace, routevars>>

MainNext ==
    \/ TrainReset
    \/ TrainGetAction
    \/ TrainStep
    \/ TrainStoreTransition
    \/ TrainTrain
    \/ TrainDecayEpsilon
    \/ TrainUpdateTargetNetwork
    \/ MainExcept
    \/ LoopSimulatorDies
    \/ MainSaveAndEvaluate
    \/ EvalReset
    \/ EvalGetAction
    \/ EvalStep

SpecMain == TrainInit /\ [][MainNext]_vars

(***************************************************************************)
(* C27: evaluate_agent chooses every action with training=False, so        *)
(* greedily, and neither learns nor stores: from its call to its return    *)
(* the replay buffer, the online and the target parameters, the optimizer  *)
(* state, loss_history and epsilon are what they were at the call.         *)
(***************************************************************************)
C27_EvaluationLeavesAgentAsItWas ==
    /\ [](loop.fn = "evaluate_agent" => AgentState = trace.before)
    /\ [][(loop.fn = "evaluate_agent" /\ ret'.op = "get_action") =>
             /\ ret'.k[2] = FALSE
             /\ ret'.val = ArgMax(Forward(q_network, ret'.k[1]))]_vars

\* the evaluation of an agent that has taken a gradient step and decayed
\* epsilon, returned after an episode of two steps on the simulator
C27_Witness ==
    /\ loop.fn = "evaluate_agent"
    /\ loop.pc = "returned"
    /\ loop.env = LoopEnv
    /\ env[LoopEnv].current_step = 2 * DeltaTime
    /\ Len(loss_history) >= 1
    /\ Len(buffer) = 1
    /\ FracLess(<<0, 1>>, epsilon) /\ FracLess(epsilon, <<1, 1>>)
    /\ AgentState = trace.before

(***************************************************************************)
(* C28: evaluate_fixed_time_baseline chooses its action from the step      *)
(* index alone: the i-th step (i from 0) of every episode takes action 0   *)
(* when floor(i / cycle_length) is even and action 1 when it is odd,       *)
(* whatever the states observed, the index starting again at 0 in every    *)
(* episode; with cycle_length = 20 the steps 0..19 take action 0 and the   *)
(* steps 20..39 action 1.  The actions of an episode are therefore a       *)
(* function of their number, the same in every run.                        *)
(***************************************************************************)
C28_ActionFromStepIndexAlone ==
    /\ [](\A i \in 1..Len(trace.actions) :
             trace.actions[i] =
                 IF ((i - 1) \div loop.cycle_length) % 2 = 0 THEN 0 ELSE 1)
    /\ [](loop.cycle_length = 20 =>
             \A i \in 1..Len(trace.actions) :
                 /\ i - 1 \in 0..19 => trace.actions[i] = 0
                 /\ i - 1 \in 20..39 => trace.actions[i] = 1)
    /\ [][ret'.op = "step" =>
             /\ Len(trace'.actions) = Len(trace.actions) + 1
             /\ Len(trace.actions) = loop.step_count
             /\ loop'.action = trace'.actions[Len(trace'.actions)]]_vars
    /\ [][ret'.op = "reset" => trace'.actions = <<>>]_vars

\* an episode of forty steps with cycle_length = 20 that has seen both
\* observations
C28_Witness ==
    /\ loop.fn = "evaluate_fixed_time_baseline"
    /\ loop.cycle_length = 20
    /\ loop.pc = "returned"
    /\ Len(trace.actions) = 40
    /\ trace.actions[20] = 0
    /\ trace.actions[21] = 1
    /\ env[LoopEnv].total_waiting_time > 0
    /\ env[LoopEnv].total_queue_length < 40 * 20

(***************************************************************************)
(* C30: save followed by load restores the online parameters, the target   *)
(* parameters, the optimizer state and epsilon to their values at the      *)
(* time of the save, on the agent that saved, after further training and   *)
(* decay, as on another agent of the same dimensions: save writes the      *)
(* four values as they are and changes none of them, load puts the four    *)
(* values of the file in place, and load leaves the replay buffer as it    *)
(* was.                                                                    *)
(***************************************************************************)
C30_CheckpointRoundTrip ==
    [][/\ ret'.op = "save" =>
            /\ saved'.q_network = q_network
            /\ saved'.target_network = target_network
            /\ saved'.optimizer = optimizer
            /\ saved'.epsilon = epsilon
            /\ <<q_network', target_network', optimizer', epsilon'>> =
                  <<q_network, target_network, optimizer, epsilon>>
       /\ ret'.op # "save" => saved' = saved
       /\ (ret'.op = "load" /\ ret'.outcome = "ok") =>
            /\ \E file \in ({saved} \cup ForeignCheckpoints) \ {NoFile} :
                  /\ q_network' = file.q_network
                  /\ target_network' = file.target_network
                  /\ optimizer' = file.optimizer
                  /\ epsilon' = file.epsilon
            /\ buffer' = buffer
            /\ loss_history' = loss_history]_vars

\* the agent has loaded the checkpoint it wrote before its gradient step:
\* the optimizer is back at no step taken, while loss_history and the
\* buffer still hold what the training left
C30_Witness ==
    /\ ret.op = "load"
    /\ ret.outcome = "ok"
    /\ saved # NoFile
    /\ Len(loss_history) = 1
    /\ Len(buffer) = 1
    /\ optimizer = 0
    /\ q_network = saved.q_network
    /\ target_network = saved.target_network
    /\ epsilon = saved.epsilon
    /\ restored # {}

\* the call at the i-th place (from 1) of an episode that is still in its
\* loop: the reset, then get_action, step, store_transition, train in turn
BodyCall(i) ==
    IF i = 1 THEN "reset"
    ELSE <<"get_action", "step", "store_transition", "train">>[((i - 2) % 4) + 1]

(***************************************************************************)
(* C31: within every episode of train_dqn the calls come in the fixed      *)
(* order reset, then get_action, env.step, store_transition, train again   *)
(* and again: every step is followed by exactly one store_transition and   *)
(* then exactly one train before the next get_action, no train comes       *)
(* between the reset and the first step, and after a step that returned    *)
(* done = true no step is taken until the next reset (the episode ends     *)
(* with decay_epsilon and, when due, update_target_network).               *)
(***************************************************************************)
C31_CollectionAndOptimizationAlternate ==
    /\ [](loop.fn = "train_dqn" =>
            \A i \in 1..Len(trace.calls) :
               \/ trace.calls[i] = BodyCall(i)
               \/ /\ trace.calls[i] = "decay_epsilon"
                  /\ trace.calls[i - 1] = "train"
                  /\ BodyCall(i) = "get_action"
               \/ /\ trace.calls[i] = "update_target_network"
                  /\ trace.calls[i - 1] = "decay_epsilon"
                  /\ i = Len(trace.calls))
    /\ [][(loop.fn = "train_dqn" /\ ret'.op = "step") =>
             /\ trace.calls[Len(trace.calls)] = "get_action"
             /\ loop.step_count >= 1 => ~trace.stepped.done]_vars
    /\ [][(loop.fn = "train_dqn" /\ ret'.op = "train") =>
             /\ trace.calls[Len(trace.calls)] = "store_transition"
             /\ trace.stores = trace.steps]_vars

\* an episode of two steps on the simulator, at its end
C31_Witness ==
    /\ loop.fn = "train_dqn"
    /\ loop.env = LoopEnv
    /\ trace.calls = <<"reset", "get_action", "step", "store_transition",
                       "train", "get_action", "step", "store_transition",
                       "train", "decay_epsilon">>
    /\ Len(loss_history) = 2

(***************************************************************************)
(* C32: every reset that returns a state, whatever the environment was     *)
(* before (never reset, inside an episode, at the end of one, closed),     *)
(* starts a fresh episode: current_step, total_queue_length and            *)
(* total_waiting_time are 0, the environment runs a simulation this reset  *)
(* started, and max_steps is what it was, so the new episode has the       *)
(* whole step budget.                                                      *)
(***************************************************************************)
C32_ResetStartsFreshEpisode ==
    [][(ret'.op = "reset" /\ ret'.outcome = "ok") =>
          LET e == ret'.env
          IN  /\ env'[e].current_step = 0
              /\ env'[e].total_queue_length = 0
              /\ env'[e].total_waiting_time = 0
              /\ env'[e].sumo_running
              /\ Len(ret'.calls) >= 2
              /\ ret'.calls[Len(ret'.calls) - 1] = "start"
              /\ ret'.calls[Len(ret'.calls)] \in {"read", "readRejected"}
              /\ connection' = "live"
              /\ opener' = e
              /\ env'[e].max_steps = env[e].max_steps
              /\ env'[e].delta_time = env[e].delta_time
              /\ ret'.val \in ObsSpace
              /\ \A o \in EnvIds \ {e} : env'[o] = env[o]]_vars

\* a reset that tore the running simulation down and started a new one
C32_Witness ==
    /\ ret.op = "reset"
    /\ ret.outcome = "ok"
    /\ ret.calls = <<"close", "start", "read">>
    /\ env[ret.env].current_step = 0
    /\ env[ret.env].total_queue_length = 0
    /\ env[ret.env].sumo_running
    /\ connection = "live"

\* the state a reset or a step returned
ReturnedState == IF ret.op = "reset" THEN ret.val ELSE ret.val.next_state

(***************************************************************************)
(* C33: every state that reset or step returns has exactly n_states = 4    *)
(* entries, one count per incoming edge, all through the life of the       *)
(* environment; when the simulator rejects the read of an edge that entry  *)
(* is 0 and the others are still read, so the length stays 4.              *)
(***************************************************************************)
C33_StateHasFourEntries ==
    (ret.op \in {"reset", "step"} /\ ret.outcome = "ok") =>
        /\ Len(ReturnedState) = 4
        /\ Len(ReturnedState) = NStates
        /\ \A i \in 1..4 : ReturnedState[i] \in Nat
        /\ Called(ret.calls, "readRejected") =>
              /\ ReturnedState[1] = 0
              /\ \E i \in 2..4 : ReturnedState[i] > 0

\* a step of a running episode whose read of the first edge was rejected
C33_Witness ==
    /\ ret.op = "step"
    /\ ret.outcome = "ok"
    /\ Called(ret.calls, "readRejected")
    /\ ret.val.next_state = <<0, 1, 0, 2>>
    /\ env[ret.env].current_step = 2 * DeltaTime

\* the gradient steps taken when the last call was the train() that
\* follows the stores-th store_transition: none before the batch_size-th
\* store, one per store from it on
GradientStepsAfter(stores, batch_size) ==
    IF stores < batch_size THEN 0 ELSE stores - batch_size + 1

(***************************************************************************)
(* C34: learning starts only once the buffer can hold a batch.  An agent   *)
(* with batch_size > buffer_size gets None from every train() and never    *)
(* changes its online parameters; an agent with batch_size <= buffer_size  *)
(* whose train() is called after every store_transition takes its first    *)
(* gradient step exactly at the batch_size-th stored transition.           *)
(***************************************************************************)
C34_LearningStartsAtFullBatch ==
    /\ cfg.batch_size > capacity =>
          /\ loss_history = <<>>
          /\ q_network = Theta(0)
          /\ ret.op = "train" => ret.outcome = "None"
    /\ (cfg.batch_size <= capacity /\ ret.op = "train") =>
          /\ Len(loss_history) = GradientStepsAfter(trace.stores, cfg.batch_size)
          /\ ret.outcome = (IF trace.stores < cfg.batch_size
                            THEN "None" ELSE "loss")

\* The same statement for the agents with batch_size >= 1, where the code
\* meets it.
C34_LearningStartsAtFullPositiveBatch ==
    cfg.batch_size >= 1 => C34_LearningStartsAtFullBatch

\* a run of batch_size 2 whose second store was followed by the first
\* gradient step
C34_FirstStepAtSecondStore ==
    /\ cfg.batch_size = 2 /\ capacity = 2
    /\ ret.op = "train" /\ ret.outcome = "loss"
    /\ trace.stores = 2 /\ Len(loss_history) = 1

(***************************************************************************)
(* routes/settings.py: POST /settings and GET /settings over the           *)
(* in-memory _CURRENT_SETTINGS.  A strategy string is the tuple of its     *)
(* characters.                                                             *)
(***************************************************************************)
MaxClock == 2

\* the letters of the model's strings: <<upper case, lower case>>
CaseTable ==
    {<<"A", "a">>, <<"B", "b">>, <<"D", "d">>, <<"E", "e">>, <<"I", "i">>,
     <<"L", "l">>, <<"M", "m">>, <<"N", "n">>, <<"O", "o">>, <<"P", "p">>,
     <<"R", "r">>, <<"S", "s">>, <<"T", "t">>, <<"U", "u">>, <<"V", "v">>}

\* a lower() that leaves every character as it is
LowerCharKeepingCase(c) == c

\* str.lower() on one character: "_" and " " have no case
LowerChar(c) ==
    IF \E p \in CaseTable : p[1] = c
    THEN (CHOOSE p \in CaseTable : p[1] = c)[2]
    ELSE c

\* "opt = settings.optimization_strategy.lower()"
Lower(s) == [i \in DOMAIN s |-> LowerChar(s[i])]

UpperChar(c) ==
    IF \E p \in CaseTable : p[2] = c
    THEN (CHOOSE p \in CaseTable : p[2] = c)[1]
    ELSE c

StrAi == <<"a", "i">>
StrRl == <<"r", "l">>
StrAdaptive == <<"a", "d", "a", "p", "t", "i", "v", "e">>
StrManual == <<"m", "a", "n", "u", "a", "l">>
StrRuleBased == <<"r", "u", "l", "e", "_", "b", "a", "s", "e", "d">>

\* the tuple of line 21
SupportedStrategies == {StrAi, StrManual, StrAdaptive, StrRl, StrRuleBased}

\* the tuple of line 25
AiStrategies == {StrAi, StrRl, StrAdaptive}

\* the strategies the requests of the model carry: the five supported
\* words and four others, each in lower case, in upper case and capitalised
StrategyWords ==
    SupportedStrategies \cup
        {<<>>, <<"a", "u", "t", "o">>, <<"a", "i", " ">>,
         <<"r", "u", "l", "e", "b", "a", "s", "e", "d">>}

StrategyInputs ==
    UNION {{w,
            [i \in DOMAIN w |-> UpperChar(w[i])],
            [i \in DOMAIN w |-> IF i = 1 THEN UpperChar(w[i]) ELSE w[i]]} :
           w \in StrategyWords}

SettingsRet(op, strategy, outcome, val) ==
    [op |-> op, strategy |-> strategy, outcome |-> outcome, val |-> val]

SettingsInit ==
    /\ NoRoutes
    /\ ret = SettingsRet("import", <<>>, "ok", _CURRENT_SETTINGS)
    /\ capacity = 0
    /\ buffer = <<>>
    /\ pushed = <<>>
    /\ NoAgent
    /\ NoEnv
    /\ NoLoop

SettingsFrame ==
    UNCHANGED <<bufvars, agentvars, histvars, envvars, loopvars,
                last_applied_action>>

\* time() grows between two requests
TimePasses ==
    /\ clock < MaxClock
    /\ clock' = clock + 1
    /\ UNCHANGED <<ret, _CURRENT_SETTINGS>>
    /\ SettingsFrame

\* POST /settings
UpdateSettings ==
    /\ \E strategy \in StrategyInputs :
          LET opt == Lower(strategy) IN
          IF opt \notin SupportedStrategies
          THEN /\ ret' = SettingsRet("update_settings", strategy, "400",
                                     _CURRENT_SETTINGS)
               /\ UNCHANGED _CURRENT_SETTINGS
          ELSE /\ _CURRENT_SETTINGS' =
                      [optimization_strategy |->
                           IF opt \in AiStrategies THEN "ai" ELSE "manual",
                       last_updated |-> clock]
               /\ ret' = SettingsRet("update_settings", strategy, "ok",
                                     _CURRENT_SETTINGS')
    /\ UNCHANGED clock
    /\ SettingsFrame

\* GET /settings
GetSettings ==
    /\ ret' = SettingsRet("get_settings", <<>>, "ok", _CURRENT_SETTINGS)
    /\ UNCHANGED <<_CURRENT_SETTINGS, clock>>
    /\ SettingsFrame

SettingsNext ==
    \/ TimePasses
    \/ UpdateSettings
    \/ GetSettings

SpecSettings == SettingsInit /\ [][SettingsNext]_vars

\* s is the word w in some letter case
InAnyCase(s, w) ==
    /\ Len(s) = Len(w)
    /\ \A i \in DOMAIN s : s[i] = w[i] \/ <<s[i], w[i]>> \in CaseTable

(***************************************************************************)
(* C35: the stored optimization_strategy is always "ai" or "manual".  A    *)
(* POST /settings carrying ai, rl or adaptive in any letter case stores    *)
(* "ai", one carrying manual or rule_based stores "manual", and any other  *)
(* strategy is answered with 400 and leaves optimization_strategy and      *)
(* last_updated as they were.                                              *)
(***************************************************************************)
C35_StrategyIsAiOrManual ==
    /\ [](_CURRENT_SETTINGS.optimization_strategy \in {"ai", "manual"})
    /\ [][ret'.op = "update_settings" /\ ret' # ret =>
            LET s == ret'.strategy IN
            IF \E w \in {StrAi, StrRl, StrAdaptive} : InAnyCase(s, w)
            THEN /\ ret'.outcome = "ok"
                 /\ _CURRENT_SETTINGS'.optimization_strategy = "ai"
            ELSE IF \E w \in {StrManual, StrRuleBased} : InAnyCase(s, w)
            THEN /\ ret'.outcome = "ok"
                 /\ _CURRENT_SETTINGS'.optimization_strategy = "manual"
            ELSE /\ ret'.outcome = "400"
                 /\ _CURRENT_SETTINGS' = _CURRENT_SETTINGS]_vars

\* "RL" was posted after time went on, and "ai" is stored with the new time
C35_Witness ==
    /\ ret.op = "update_settings" /\ ret.outcome = "ok"
    /\ ret.strategy = <<"R", "L">>
    /\ _CURRENT_SETTINGS = [optimization_strategy |-> "ai",
                            last_updated |-> MaxClock]

(***************************************************************************)
(* routes/control.py and services/RL_services.py: POST /control and        *)
(* GET /control/last over the service's traci connection.  The network    *)
(* file is not part of the sources; the model's network has two traffic   *)
(* lights, one with a program of five phases and one with four.            *)
(***************************************************************************)
PHASE_MAP ==
    [NS_GREEN |-> 0, NS_YELLOW |-> 1, ALL_RED |-> 2, EW_GREEN |-> 3,
     EW_YELLOW |-> 4]

\* traci.trafficlight.getIDList(), and the phases of each light's program
ProgramPhases == [A1 |-> 5, B2 |-> 4]

TrafficLightIds == DOMAIN ProgramPhases

\* the ControlAction bodies the requests of the model carry
ControlIntersections == TrafficLightIds \cup {"Z9"}

ControlActions == DOMAIN PHASE_MAP \cup {"GREEN_NORTH", "ns_green"}

\* apply_manual_signal: its outcome and the commands the simulator took
ApplyManualSignal(conn, tls_id, action) ==
    IF conn # "live"
    THEN [outcome |-> "FatalTraCIError", calls |-> <<>>]
    ELSE IF tls_id \notin TrafficLightIds
    THEN [outcome |-> "ValueError", calls |-> <<"getIDList">>]
    ELSE IF action \notin DOMAIN PHASE_MAP
    THEN [outcome |-> "ValueError", calls |-> <<"getIDList">>]
    ELSE IF PHASE_MAP[action] >= ProgramPhases[tls_id]
    THEN [outcome |-> "TraCIException",
          calls |-> <<"getIDList", "setPhaseRejected">>]
    ELSE [outcome |-> "ok",
          calls |-> <<"getIDList", "setPhase", "getRedYellowGreenState">>]

\* a control_signal that goes on after apply_manual_signal whatever it did
RaisedNever(outcome) == FALSE

\* apply_manual_signal raised, and control_signal with it
Raised(outcome) == outcome # "ok"

ControlInit ==
    /\ NoRoutes
    /\ NoEnv
    /\ loop = <<>>
    /\ trace = [applied |-> None]
    /\ ret = EnvRet("import", Service, "ok", <<>>, <<>>)
    /\ capacity = 0
    /\ buffer = <<>>
    /\ pushed = <<>>
    /\ NoAgent

ControlFrame ==
    UNCHANGED <<bufvars, agentvars, histvars, envvars, loop,
                _CURRENT_SETTINGS, clock>>

\* POST /control
ControlSignal ==
    /\ \E intersection \in ControlIntersections, action \in ControlActions :
          LET applied == ApplyManualSignal(connection, intersection, action)
              body == [intersection |-> intersection, action |-> action]
          IN  /\ ret' = EnvRet("control_signal", Service, applied.outcome,
                               applied.calls, body)
              /\ trace' = IF Called(applied.calls, "setPhase")
                          THEN [trace EXCEPT !.applied = body]
                          ELSE trace
              /\ last_applied_action' =
                     IF Raised(applied.outcome)
                     THEN last_applied_action
                     ELSE [timestamp |-> clock,
                           intersection |-> intersection,
                           action |-> action]
    /\ ControlFrame

\* GET /control/last
GetLastAction ==
    /\ ret' = EnvRet("get_last_action", Service, "ok", <<>>,
                     IF last_applied_action = None
                     THEN [message |-> "No control applied yet."]
                     ELSE last_applied_action)
    /\ UNCHANGED <<last_applied_action, trace>>
    /\ ControlFrame

ControlNext ==
    \/ StartSumo /\ EnvFrame
    \/ SimulatorDies /\ EnvFrame
    \/ TimePasses
    \/ ControlSignal
    \/ GetLastAction

SpecControl == ControlInit /\ [][ControlNext]_vars

Threads == {"T1", "T2"}

MaxRequests == 2

NewThread == [pc |-> "idle", requests |-> 0, steps |-> 0]

ServiceInit ==
    /\ NoEnv
    /\ loop = [t \in Threads |-> NewThread]
    /\ trace = [started |-> 0, ticks |-> 0, overlap |-> FALSE]
    /\ ret = EnvRet("import", Service, "ok", <<>>, <<>>)
    /\ NoRoutes
    /\ capacity = 0
    /\ buffer = <<>>
    /\ pushed = <<>>
    /\ NoAgent

ServiceFrame == UNCHANGED <<bufvars, agentvars, histvars, routevars, env>>

At(t, pc) == loop[t].pc = pc

Goto(t, pc) == loop' = [loop EXCEPT ![t].pc = pc]

\* a call of get_traffic_states ends: it returned, or it raised
Returns(t, outcome) ==
    /\ loop' = [loop EXCEPT ![t].pc = "idle"]
    /\ ret' = EnvRet("get_traffic_states", t, outcome, <<>>,
                     [steps |-> loop[t].steps])

\* GET /state: get_traffic_states -> step_simulation -> start_sumo
ThreadCall(t) ==
    /\ At(t, "idle")
    /\ loop[t].requests < MaxRequests
    /\ loop' = [loop EXCEPT ![t] = [pc |-> "isLoaded",
                                    requests |-> @.requests + 1,
                                    steps |-> 0]]
    /\ trace' = [trace EXCEPT !.overlap =
                     @ \/ \E u \in Threads \ {t} : ~At(u, "idle")]
    /\ UNCHANGED <<ret, connection, opener, _running>>

\* start_sumo lines 23-27
ThreadIsLoaded(t) ==
    /\ At(t, "isLoaded")
    /\ Goto(t, IF TraciIsLoaded(connection)
               THEN "simulationStep" ELSE "_running")
    /\ UNCHANGED <<ret, trace, connection, opener, _running>>

\* start_sumo lines 29-30
ThreadCheckRunning(t) ==
    /\ At(t, "_running")
    /\ Goto(t, IF _running THEN "simulationStep" ELSE "traci.start")
    /\ UNCHANGED <<ret, trace, connection, opener, _running>>

\* traci.start, up to the launch: it refuses when the label is registered,
\* and the launch itself may fail; both exceptions are caught (line 38)
ThreadTraciStart(t) ==
    /\ At(t, "traci.start")
    /\ \/ /\ connection = "none"
          /\ Goto(t, "connect")
       \/ Goto(t, "getIDList")
    /\ UNCHANGED <<ret, trace, connection, opener, _running>>

\* traci.start, from the launched simulator on: the connection to it is
\* registered under the default label, in place of whatever was there
ThreadTraciConnect(t) ==
    /\ At(t, "connect")
    /\ connection' = "live"
    /\ opener' = Service
    /\ trace' = [trace EXCEPT !.started = @ + 1]
    /\ Goto(t, "set_running")
    /\ UNCHANGED <<ret, _running>>

\* start_sumo line 34
ThreadSetRunning(t) ==
    /\ At(t, "set_running")
    /\ _running' = TRUE
    /\ Goto(t, "getIDList")
    /\ UNCHANGED <<ret, trace, connection, opener>>

\* start_sumo line 41, outside the try
ThreadGetIDList(t) ==
    /\ At(t, "getIDList")
    /\ IF connection = "live"
       THEN Goto(t, "simulationStep") /\ UNCHANGED ret
       ELSE Returns(t, "FatalTraCIError")
    /\ UNCHANGED <<trace, connection, opener, _running>>

\* step_simulation line 48
ThreadSimulationStep(t) ==
    /\ At(t, "simulationStep")
    /\ IF connection = "live"
       THEN /\ loop' = [loop EXCEPT ![t].pc = "read", ![t].steps = @ + 1]
            /\ trace' = [trace EXCEPT !.ticks = @ + 1]
            /\ UNCHANGED ret
       ELSE /\ Returns(t, "FatalTraCIError")
            /\ UNCHANGED trace
    /\ UNCHANGED <<connection, opener, _running>>

\* the reads of get_traffic_states after the step
ThreadRead(t) ==
    /\ At(t, "read")
    /\ Returns(t, IF connection = "live" THEN "ok" ELSE "FatalTraCIError")
    /\ UNCHANGED <<trace, connection, opener, _running>>

\* the registered simulator process ends on its own
ServiceSimulatorDies ==
    /\ connection = "live"
    /\ connection' = "dead"
    /\ UNCHANGED <<ret, loop, trace, opener, _running>>

ServiceNext ==
    \/ \E t \in Threads : ThreadCall(t) /\ ServiceFrame
    \/ \E t \in Threads : ThreadIsLoaded(t) /\ ServiceFrame
    \/ \E t \in Threads : ThreadCheckRunning(t) /\ ServiceFrame
    \/ \E t \in Threads : ThreadTraciStart(t) /\ ServiceFrame
    \/ \E t \in Threads : ThreadTraciConnect(t) /\ ServiceFrame
    \/ \E t \in Threads : ThreadSetRunning(t) /\ ServiceFrame
    \/ \E t \in Threads : ThreadGetIDList(t) /\ ServiceFrame
    \/ \E t \in Threads : ThreadSimulationStep(t) /\ ServiceFrame
    \/ \E t \in Threads : ThreadRead(t) /\ ServiceFrame
    \/ ServiceSimulatorDies /\ ServiceFrame

SpecService == ServiceInit /\ [][ServiceNext]_vars

(***************************************************************************)
(* C37: the service layer starts the simulator at most once.  For any      *)
(* interleaving of concurrent step_simulation / start_sumo calls with      *)
(* SUMO enabled the simulator is launched at most once, and each           *)
(* get_traffic_states call that returns advanced the simulation by exactly *)
(* one tick.                                                               *)
(***************************************************************************)
C37_SimulatorStartedAtMostOnce ==
    /\ trace.started <= 1
    /\ (ret.op = "get_traffic_states" /\ ret.outcome = "ok") =>
           ret.val.steps = 1

\* The same statement for the calls that never overlap, where the code
\* meets it.
C37_StartedAtMostOnceWithoutOverlap ==
    ~trace.overlap => C37_SimulatorStartedAtMostOnce

\* a second request served alone by the simulator the first one started
C37_SecondCallSteppedOnce ==
    /\ ~trace.overlap
    /\ trace.started = 1
    /\ trace.ticks = 2
    /\ ret.op = "get_traffic_states" /\ ret.outcome = "ok"
    /\ loop[ret.env].requests = 2

\* two overlapping first calls have launched a simulator each
C37_TwoSimulators ==
    /\ trace.started = 2
    /\ \A t \in Threads : loop[t].requests = 1

====
